---- MODULE Spec2Model ----
(***************************************************************************)
(* A model of the GC9A01A display driver (src/src/lib.rs): the driver's    *)
(* transport protocol (pin and SPI calls), its global offset, its fixed    *)
(* 10-slot region set and its frame buffer, and of the render loop of the  *)
(* gauge example (src/examples/gauge/src/main.rs).  Every driver method is *)
(* one action; the pin and SPI calls a method issues are recorded in       *)
(* `calls`, each with the levels of the chip-select, data/command and      *)
(* reset lines.                                                            *)
(***************************************************************************)
EXTENDS Integers, Sequences, FiniteSets, TLC

VARIABLES
    width,          \* GC9A01A.width
    height,         \* GC9A01A.height
    rgb,            \* GC9A01A.rgb
    dx,             \* GC9A01A.dx
    dy,             \* GC9A01A.dy
    regions,        \* GC9A01A.regions: 10 slots, <<>> is None, <<r>> is Some(r)
    cs,             \* level of the chip-select pin
    dc,             \* level of the data/command pin
    rst,            \* level of the reset pin
    buffer,         \* the bytes of the frame buffer handed to the transfers (FrameBuffer.buffer)
    background,     \* the bytes of the buffer the frame buffer is restored from
    panel,          \* the panel's registers and memory, NoPanel where they are not followed
    overflowChecks, \* the build: TRUE panics on integer overflow, FALSE wraps
    pc,             \* "idle": no call in progress; "done": a call has returned
    op,             \* the last call: its name and arguments
    result,         \* the last call's outcome: "Ok", "Err" or "Panic"
    calls,          \* the pin and SPI calls (and delays) the last call attempted, in order
    fault,          \* the index in `calls` of the call the transport failed, 0 when none did
    attempted,      \* history: the regions passed to store_region since the last clear
    kept,           \* history: the error values the caller kept, each with its cause
    loop,           \* the position of the gauge's render loop, "none" outside it
    steps,          \* history: the number of frame-buffer calls made
    trip            \* history: a copy_region of a region onto itself and what followed it

vars == <<width, height, rgb, dx, dy, regions, cs, dc, rst, buffer, background, panel,
          overflowChecks, pc, op, result, calls, fault, attempted, kept, loop, steps, trip>>

\* what new() and the build fix
build == <<width, height, rgb, overflowChecks>>
\* the global offset
offset == <<dx, dy>>
\* the two pixel buffers
frames == <<buffer, background>>

\* outside the render loop
NoLoop == [at |-> "none", bounding_region |-> <<>>, button |-> <<>>, stray |-> {}]

\* no copy of a region onto itself is being followed
NoTrip == [stage |-> 0, region |-> <<>>, before |-> <<>>, drew |-> FALSE]
\* what the caller of the driver keeps
caller == <<kept, loop, steps, trip>>

----------------------------------------------------------------------------
(* Bounds of the model *)

\* the panel of the protocol specification Spec
PanelWidth == 3
PanelHeight == 2
\* the panel of the chunking specification SpecChunk: a full row is 104 bytes
WideWidth == 52
WideHeight == 2
\* store_region calls followed between two clears (the set has 10 slots)
MaxAttempts == 11
\* store_region calls followed between two clears where any pin or SPI call may fail
MaxStored == 3
\* frame-buffer calls followed in the specification of the frame buffer
MaxCopies == 2
\* frame-buffer calls followed in the specification of the round trip
MaxTripOps == 3
\* the frame buffer that is cleared and painted
PaintWidth == 4
PaintHeight == 4
\* the frame buffer that bounding regions are computed for
BoxWidth == 8
BoxHeight == 8
\* clear and draw_iter calls in a behaviour of the painting
MaxPaintOps == 3

----------------------------------------------------------------------------
(* Program constants *)

CaSet == 42      \* Instruction::CaSet = 0x2A
RaSet == 43      \* Instruction::RaSet = 0x2B
RamWr == 44      \* Instruction::RamWr = 0x2C
NumSlots == 10   \* regions: [Option<Region>; 10]
ChunkBytes == 32 \* chunks(32) in show_region and draw_image
ClearChunkPixels == 512 \* CHUNK_SIZE in clear_screen
ShowEnd == 239   \* 0x00, 0xEF: the end coordinate show() sends
MadCtl == 54     \* Instruction::MadCtl = 0x36
ResetDelayMs == 10  \* delay.delay_ms(10) in hard_reset
InitDelayMs == 200  \* delay.delay_ms(200) in init

\* enum Orientation: Portrait, Landscape, PortraitSwapped, LandscapeSwapped
Orientations == {0, 96, 192, 160}

\* the commands of init after the hard reset, each with its parameters
InitCommands == <<
    <<239, <<>>>>,
    <<235, <<20>>>>,
    <<254, <<>>>>,
    <<239, <<>>>>,
    <<235, <<20>>>>,
    <<132, <<64>>>>,
    <<133, <<255>>>>,
    <<134, <<255>>>>,
    <<135, <<255>>>>,
    <<136, <<10>>>>,
    <<137, <<33>>>>,
    <<138, <<0>>>>,
    <<139, <<128>>>>,
    <<140, <<1>>>>,
    <<141, <<1>>>>,
    <<142, <<255>>>>,
    <<143, <<255>>>>,
    <<182, <<0, 32>>>>,
    <<54, <<152>>>>,
    <<58, <<5>>>>,
    <<144, <<8, 8, 8, 8>>>>,
    <<189, <<6>>>>,
    <<188, <<0>>>>,
    <<255, <<96, 1, 4>>>>,
    <<195, <<19>>>>,
    <<196, <<19>>>>,
    <<201, <<34>>>>,
    <<190, <<17>>>>,
    <<225, <<16, 14>>>>,
    <<223, <<33, 12, 2>>>>,
    <<224, <<69, 9, 8, 8, 38, 42>>>>,
    <<241, <<67, 112, 114, 54, 55, 111>>>>,
    <<242, <<69, 9, 8, 8, 38, 42>>>>,
    <<243, <<67, 112, 114, 54, 55, 111>>>>,
    <<237, <<27, 11>>>>,
    <<174, <<119>>>>,
    <<205, <<99>>>>,
    <<112, <<7, 7, 4, 14, 15, 9, 7, 8, 3>>>>,
    <<177, <<52>>>>,
    <<98, <<24, 13, 113, 237, 112, 112, 24, 15, 113, 239, 112, 112>>>>,
    <<99, <<24, 17, 113, 241, 112, 112, 24, 19, 113, 243, 112, 112>>>>,
    <<100, <<40, 41, 241, 1, 241, 0, 7>>>>,
    <<102, <<60, 0, 205, 103, 69, 69, 16, 0, 0, 0>>>>,
    <<103, <<0, 60, 0, 0, 0, 1, 84, 16, 50, 152>>>>,
    <<116, <<16, 133, 128, 0, 0, 78, 0>>>>,
    <<152, <<62, 7>>>>,
    <<42, <<>>>>,
    <<33, <<>>>>,
    <<17, <<>>>>,
    <<41, <<>>>> >>

\* the number of values of a u16
U16 == 2^16

High == "high"
Low == "low"

----------------------------------------------------------------------------
(* Integer conversions *)

\* `value as u16`: the low 16 bits (of a u32 that wrapped below 0 as well, 2^16 dividing 2^32)
as_u16(value) == value % U16

\* u16::to_le_bytes
to_le_bytes(value) == <<value % 256, value \div 256>>

\* u16::to_be_bytes
to_be_bytes(value) == <<value \div 256, value % 256>>

\* the 16-bit value of two bytes, most significant first
Word(bytes) == bytes[1] * 256 + bytes[2]

\* (color >> 8) as u8, (color & 0xff) as u8
HighByte(color) == (color \div 256) % 256
LowByte(color) == color % 256

\* `value | 0x08` on a u8
or_0x08(value) == IF (value \div 8) % 2 = 1 THEN value ELSE value + 8

----------------------------------------------------------------------------
(* The transport.  A run of a method is the record [cs, dc, rst, calls,     *)
(* panic]: the levels of the three lines, the pin and SPI calls issued so   *)
(* far, each with the levels of the lines once it succeeded, and whether    *)
(* the method has panicked.  A run is built with every call succeeding; a   *)
(* transport failure of the k-th call cuts it there (see Call).             *)

\* pin.set_high() / pin.set_low()
SetPin(st, line, level) ==
    IF st.panic THEN st
    ELSE LET after == [st EXCEPT ![line] = level]
         IN  [after EXCEPT !.calls = Append(@,
                 [kind |-> "pin", line |-> line, level |-> level, bytes |-> <<>>,
                  cs |-> after.cs, dc |-> after.dc, rst |-> after.rst])]

\* spi.write(bytes)
SpiWrite(st, bytes) ==
    IF st.panic THEN st
    ELSE [st EXCEPT !.calls = Append(@,
             [kind |-> "spi", line |-> "spi", level |-> "none", bytes |-> bytes,
              cs |-> st.cs, dc |-> st.dc, rst |-> st.rst])]

\* delay.delay_ms(ms): it cannot fail
Delay(st, ms) ==
    IF st.panic THEN st
    ELSE [st EXCEPT !.calls = Append(@,
             [kind |-> "delay", line |-> "delay", level |-> "none", bytes |-> <<ms>>,
              cs |-> st.cs, dc |-> st.dc, rst |-> st.rst])]

\* panic!: nothing more is issued
Panic(st) == [st EXCEPT !.panic = TRUE]

\* fn start_data
start_data(st) == SetPin(st, "dc", High)

\* fn write_data
write_data(st, data) ==
    LET s1 == SetPin(st, "cs", High)
        s2 == SetPin(s1, "dc", High)
        s3 == SetPin(s2, "cs", Low)
        s4 == SpiWrite(s3, data)
    IN  SetPin(s4, "cs", High)

\* a write_command that leaves the data/command line high for the command byte
write_command_as_data(st, command, params) ==
    LET s1 == SetPin(st, "cs", High)
        s2 == SetPin(s1, "dc", High)
        s3 == SetPin(s2, "cs", Low)
        s4 == SpiWrite(s3, <<command>>)
        s5 == IF params # <<>> THEN write_data(start_data(s4), params) ELSE s4
    IN  SetPin(s5, "cs", High)

\* fn write_command
write_command(st, command, params) ==
    LET s1 == SetPin(st, "cs", High)
        s2 == SetPin(s1, "dc", Low)
        s3 == SetPin(s2, "cs", Low)
        s4 == SpiWrite(s3, <<command>>)
        s5 == IF params # <<>> THEN write_data(start_data(s4), params) ELSE s4
    IN  SetPin(s5, "cs", High)

\* fn write_word
write_word(st, value) == write_data(st, to_be_bytes(value))

\* fn hard_reset
hard_reset(st) ==
    LET s1 == SetPin(st, "rst", High)
        s2 == Delay(s1, ResetDelayMs)
        s3 == SetPin(s2, "rst", Low)
        s4 == Delay(s3, ResetDelayMs)
        s5 == SetPin(s4, "rst", High)
    IN  Delay(s5, ResetDelayMs)

\* self.write_command(c, &[..])?; for the commands list[i..]
RECURSIVE write_commands(_, _, _)
write_commands(st, list, i) ==
    IF i > Len(list) \/ st.panic THEN st
    ELSE write_commands(write_command(st, list[i][1], list[i][2]), list, i + 1)

\* fn init
init(st) == Delay(write_commands(hard_reset(st), InitCommands, 1), InitDelayMs)

\* fn set_orientation
set_orientation(st, orientation) ==
    IF rgb THEN write_command(st, MadCtl, <<orientation>>)
    ELSE write_command(st, MadCtl, <<or_0x08(orientation)>>)

\* `a + b` on u16 followed by write_word: the sum panics in a build with
\* overflow checks and wraps in one without
write_word_sum(st, a, b) ==
    IF a + b >= U16 /\ overflowChecks THEN Panic(st) ELSE write_word(st, as_u16(a + b))

\* fn set_address_window
set_address_window(st, start_x, start_y, end_x, end_y) ==
    LET s1 == write_command(st, CaSet, <<>>)
        s2 == start_data(s1)
        s3 == write_word_sum(s2, start_x, dx)
        s4 == write_word_sum(s3, end_x, dx)
        s5 == write_command(s4, RaSet, <<>>)
        s6 == start_data(s5)
        s7 == write_word_sum(s6, start_y, dy)
    IN  write_word_sum(s7, end_y, dy)

----------------------------------------------------------------------------
(* Pixel transfers *)

\* the i-th piece of slice::chunks(n): n elements, the last piece shorter
\* when n does not divide the length
Chunk(data, n, i) ==
    SubSeq(data, (i - 1) * n + 1, IF i * n < Len(data) THEN i * n ELSE Len(data))

\* slice::chunks_exact(n): the pieces of n elements only, the remainder dropped
chunks_exact(data, n) == [i \in 1..(Len(data) \div n) |-> Chunk(data, n, i)]

\* slice::chunks(n)
chunks(data, n) == [i \in 1..((Len(data) + n - 1) \div n) |-> Chunk(data, n, i)]

\* for chunk in pieces { self.write_data(chunk)?; }, from piece i on
RECURSIVE write_each(_, _, _)
write_each(st, pieces, i) ==
    IF i > Len(pieces) \/ st.panic THEN st
    ELSE write_each(write_data(st, pieces[i]), pieces, i + 1)

\* the row loop indexing the buffer with the region's width as its stride
RECURSIVE show_rows_packed(_, _, _, _, _)
show_rows_packed(st, y, end_y, start_x, w) ==
    IF y > end_y \/ st.panic THEN st
    ELSE LET start_index == (y * w + start_x) * 2
             end_index == start_index + w * 2
         IN  IF end_index > Len(buffer) THEN Panic(st)
             ELSE show_rows_packed(write_each(st, chunks(SubSeq(buffer, start_index + 1, end_index),
                                                         ChunkBytes), 1),
                                   y + 1, end_y, start_x, w)

\* the row loop of show_region from row y on: the row is
\* buffer[start_index..end_index], which panics when it ends past the buffer
RECURSIVE show_rows(_, _, _, _, _)
show_rows(st, y, end_y, start_x, w) ==
    IF y > end_y \/ st.panic THEN st
    ELSE LET start_index == (y * width + start_x) * 2
             end_index == start_index + w * 2
         IN  IF end_index > Len(buffer) THEN Panic(st)
             ELSE show_rows(write_each(st, chunks(SubSeq(buffer, start_index + 1, end_index),
                                                  ChunkBytes), 1),
                            y + 1, end_y, start_x, w)

\* the end coordinate taken one past the last pixel
EndCoordinateExclusive(top_left, size) == as_u16(top_left + size)

\* `(top_left as u32 + size - 1) as u16`: with top_left + size = 0 the
\* subtraction goes below 0 and, in a build without overflow checks, wraps
EndCoordinate(top_left, size) == as_u16(top_left + size - 1)

\* show_region sending the memory-write command before the address window
show_region_command_first(st, top_left_x, top_left_y, w, h) ==
    LET end_x == EndCoordinate(top_left_x, w)
        end_y == EndCoordinate(top_left_y, h)
        s1 == write_command(st, RamWr, <<>>)
        s2 == set_address_window(s1, top_left_x, top_left_y, end_x, end_y)
        s3 == start_data(s2)
    IN  IF overflowChecks /\ (top_left_x + w = 0 \/ top_left_y + h = 0) THEN Panic(st)
        ELSE show_rows(s3, top_left_y, end_y, top_left_x, w)

\* fn show_region
show_region(st, top_left_x, top_left_y, w, h) ==
    LET start_x == top_left_x
        start_y == top_left_y
        end_x == EndCoordinate(top_left_x, w)
        end_y == EndCoordinate(top_left_y, h)
        s1 == set_address_window(st, start_x, start_y, end_x, end_y)
        s2 == write_command(s1, RamWr, <<>>)
        s3 == start_data(s2)
    IN  IF overflowChecks /\ (top_left_x + w = 0 \/ top_left_y + h = 0) THEN Panic(st)
        ELSE show_rows(s3, start_y, end_y, start_x, w)

\* fn show: the window is the literal 0x00, 0x00, 0x00, 0xEF twice, the buffer one write
show(st) ==
    LET s1 == write_command(st, CaSet, <<>>)
        s2 == write_data(s1, <<0, 0, 0, ShowEnd>>)
        s3 == write_command(s2, RaSet, <<>>)
        s4 == write_data(s3, <<0, 0, 0, ShowEnd>>)
        s5 == write_command(s4, RamWr, <<>>)
        s6 == SetPin(s5, "cs", High)
        s7 == SetPin(s6, "dc", High)
        s8 == SetPin(s7, "cs", Low)
        s9 == SpiWrite(s8, buffer)
    IN  SetPin(s9, "cs", High)

\* fn write_pixel
write_pixel(st, x, y, color) ==
    LET s1 == set_address_window(st, x, y, x, y)
        s2 == write_command(s1, RamWr, <<>>)
        s3 == start_data(s2)
    IN  write_word(s3, color)

\* a clipping that looks at the column only
on_screen_columns(coord) == coord.x >= 0 /\ coord.x < width

\* coord.x >= 0 && coord.y >= 0 && coord.x < self.width as i32
\*     && coord.y < self.height as i32
on_screen(coord) == coord.x >= 0 /\ coord.y >= 0 /\ coord.x < width /\ coord.y < height

\* the loop of the driver's draw_iter from the pixel pixels[i] on:
\* self.write_pixel(coord.x as u16, coord.y as u16, color_value)? for the
\* pixels on the screen
RECURSIVE draw_each(_, _, _)
draw_each(st, pixels, i) ==
    IF i > Len(pixels) \/ st.panic THEN st
    ELSE IF on_screen(pixels[i])
         THEN draw_each(write_pixel(st, as_u16(pixels[i].x), as_u16(pixels[i].y), pixels[i].color),
                        pixels, i + 1)
         ELSE draw_each(st, pixels, i + 1)

\* fn draw_iter of impl DrawTarget for GC9A01A
GC9A01A_draw_iter(st, pixels) == draw_each(st, pixels, 1)

\* fn draw_image
draw_image(st, image_data) ==
    LET s1 == set_address_window(st, 0, 0, as_u16(width) - 1, as_u16(height) - 1)
        s2 == write_command(s1, RamWr, <<>>)
        s3 == start_data(s2)
    IN  write_each(s3, chunks(image_data, ChunkBytes), 1)

\* the chunk array of clear_screen: the color, high byte first, for `pixels` pixels
ColorChunk(color, pixels) ==
    [i \in 1..(2 * pixels) |-> IF i % 2 = 1 THEN HighByte(color) ELSE LowByte(color)]

\* for _ in 0..n { self.write_data(data)?; }
RECURSIVE write_times(_, _, _)
write_times(st, n, data) ==
    IF n = 0 \/ st.panic THEN st ELSE write_times(write_data(st, data), n - 1, data)

\* fn clear_screen
clear_screen(st, color) ==
    LET total_pixels == width * height
        full_chunks == total_pixels \div ClearChunkPixels
        remaining_pixels == total_pixels % ClearChunkPixels
        s1 == set_address_window(st, 0, 0, as_u16(width) - 1, as_u16(height) - 1)
        s2 == write_command(s1, RamWr, <<>>)
        s3 == start_data(s2)
        s4 == write_times(s3, full_chunks, ColorChunk(color, ClearChunkPixels))
    IN  IF remaining_pixels > 0
        THEN write_data(s4, ColorChunk(color, remaining_pixels))
        ELSE s4

----------------------------------------------------------------------------
(* The region set *)

None == <<>>
Some(r) == <<r>>

Region(x, y, w, h) == [width |-> w, height |-> h, y |-> y, x |-> x]

\* regions: [None; 10]
NoRegions == [i \in 1..NumSlots |-> None]

\* the slot store_region fills: the first that is None (0 when there is none)
FirstEmpty(slots) ==
    IF \E i \in 1..NumSlots : slots[i] = None
    THEN CHOOSE i \in 1..NumSlots :
            slots[i] = None /\ \A j \in 1..(i - 1) : slots[j] # None
    ELSE 0

\* store_region filling the last empty slot instead of the first
store_region_last_empty(region) ==
    IF \A i \in 1..NumSlots : regions[i] # None THEN regions
    ELSE [regions EXCEPT ![CHOOSE i \in 1..NumSlots :
              regions[i] = None /\ \A j \in (i + 1)..NumSlots : regions[j] # None] = Some(region)]

\* store_region overwriting the last slot when the set is full
store_region_overwrite(region) ==
    IF FirstEmpty(regions) = 0 THEN [regions EXCEPT ![NumSlots] = Some(region)]
    ELSE [regions EXCEPT ![FirstEmpty(regions)] = Some(region)]

\* a store that skips a region the set already holds
store_region_unless_stored(region) ==
    IF FirstEmpty(regions) = 0 \/ \E i \in 1..Len(regions) : regions[i] = Some(region)
    THEN regions
    ELSE [regions EXCEPT ![FirstEmpty(regions)] = Some(region)]

\* the region set after store_region(region)
store_region(region) ==
    IF FirstEmpty(regions) = 0 THEN regions
    ELSE [regions EXCEPT ![FirstEmpty(regions)] = Some(region)]

\* store_region on the slots `slots`, for the callers that store several regions in a row
store_region_in(slots, region) ==
    IF FirstEmpty(slots) = 0 THEN slots
    ELSE [slots EXCEPT ![FirstEmpty(slots)] = Some(region)]

\* what store_region returns
store_region_result == IF FirstEmpty(regions) = 0 THEN "Err" ELSE "Ok"

\* clear_regions emptying the first slot only
clear_regions_first_slot == [regions EXCEPT ![1] = None]

\* clear_regions leaving the last slot as it is
clear_regions_but_last == [i \in 1..NumSlots |-> IF i < NumSlots THEN None ELSE regions[i]]

\* the region set after clear_regions
clear_regions == NoRegions

\* the loop of show_regions from slot i on
RECURSIVE show_slots(_, _)
show_slots(st, i) ==
    IF i > NumSlots \/ st.panic THEN st
    ELSE IF regions[i] # None
         THEN LET region_data == regions[i][1]
              IN  show_slots(show_region(st, region_data.x, region_data.y,
                                         region_data.width, region_data.height), i + 1)
         ELSE show_slots(st, i + 1)

\* a transfer that takes each region out of its slot
regions_taken_by_show(slots) == [i \in 1..Len(slots) |-> None]

\* self.regions after show_regions: its loop reads self.regions[i] and assigns nothing
regions_after_show(slots) == slots

\* show_regions going through the slots from the last to the first
RECURSIVE show_slots_down(_, _)
show_slots_down(st, i) ==
    IF i < 1 \/ st.panic THEN st
    ELSE IF regions[i] # None
         THEN LET region_data == regions[i][1]
              IN  show_slots_down(show_region(st, region_data.x, region_data.y,
                                              region_data.width, region_data.height), i - 1)
         ELSE show_slots_down(st, i - 1)

show_regions_reversed(st) == show_slots_down(st, NumSlots)

\* fn show_regions
show_regions(st) == show_slots(st, 1)

----------------------------------------------------------------------------
(* The frame buffer (struct FrameBuffer).  Its width and height are the     *)
(* driver's: the examples make both from LCD_WIDTH and LCD_HEIGHT.  A run   *)
(* of one of its methods is the record [buffer, panic]: the bytes of the    *)
(* frame buffer, and whether a slice went out of range.                     *)

\* a copy that leaves the last byte of the slice as it was
copy_from_slice_short(bytes, start, end, src, from) ==
    [i \in 1..Len(bytes) |->
        IF i > start /\ i < end THEN src[from + (i - start)] ELSE bytes[i]]

\* `bytes` with bytes[start..end] (0-based, end excluded) replaced by src[from..]
copy_from_slice(bytes, start, end, src, from) ==
    [i \in 1..Len(bytes) |->
        IF i > start /\ i <= end THEN src[from + (i - start)] ELSE bytes[i]]

\* the row loop of copy_region from row `row` on
RECURSIVE copy_rows(_, _, _, _, _, _, _, _, _)
copy_rows(run, src_buffer, row, src_x, src_y, src_width, src_height, dest_x, dest_y) ==
    IF row >= src_height \/ run.panic THEN run
    ELSE LET src_row_start == (src_y + row) * width * 2 + src_x * 2
             src_row_end == src_row_start + src_width * 2
             dest_row_start == (dest_y + row) * width * 2 + dest_x * 2
             dest_row_end == dest_row_start + src_width * 2
         IN  IF dest_row_end > Len(run.buffer) \/ src_row_end > Len(src_buffer)
             THEN [run EXCEPT !.panic = TRUE]
             ELSE copy_rows([run EXCEPT !.buffer = copy_from_slice(run.buffer, dest_row_start,
                                                       dest_row_end, src_buffer, src_row_start)],
                            src_buffer, row + 1, src_x, src_y, src_width, src_height,
                            dest_x, dest_y)

\* copy_region writing the rows back at the source's origin
copy_region_at_source(run, src_buffer, src_x, src_y, src_width, src_height, dest_x, dest_y) ==
    copy_rows(run, src_buffer, 0, src_x, src_y, src_width, src_height, src_x, src_y)

\* FrameBuffer::copy_region
copy_region(run, src_buffer, src_x, src_y, src_width, src_height, dest_x, dest_y) ==
    copy_rows(run, src_buffer, 0, src_x, src_y, src_width, src_height, dest_x, dest_y)

\* the loop of copy_regions over the slots i.. (flatten skips the empty ones)
RECURSIVE copy_slots(_, _, _, _)
copy_slots(run, src_buffer, slots, i) ==
    IF i > Len(slots) \/ run.panic THEN run
    ELSE IF slots[i] # None
         THEN LET region == slots[i][1]
              IN  copy_slots(copy_region(run, src_buffer, region.x, region.y, region.width,
                                         region.height, region.x, region.y),
                             src_buffer, slots, i + 1)
         ELSE copy_slots(run, src_buffer, slots, i + 1)

\* copy_regions restoring the first occupied slot only
copy_regions_first(run, src_buffer, slots) ==
    IF \A i \in 1..Len(slots) : slots[i] = None THEN run
    ELSE LET region == slots[CHOOSE i \in 1..Len(slots) :
                                 slots[i] # None /\ \A j \in 1..(i - 1) : slots[j] = None][1]
         IN  copy_region(run, src_buffer, region.x, region.y, region.width, region.height,
                         region.x, region.y)

\* FrameBuffer::copy_regions
copy_regions(run, src_buffer, slots) == copy_slots(run, src_buffer, slots, 1)

\* a clear that stores the low byte first
FrameBuffer_clear_le(run, color) ==
    [run EXCEPT !.buffer =
        [i \in 1..Len(run.buffer) |->
            IF i > 2 * (Len(run.buffer) \div 2) THEN run.buffer[i]
            ELSE IF i % 2 = 1 THEN LowByte(color) ELSE HighByte(color)]]

\* FrameBuffer::clear: every whole chunk of two bytes becomes (raw_color >> 8) as u8,
\* raw_color as u8; chunks_exact_mut leaves a last odd byte alone
FrameBuffer_clear(run, color) ==
    [run EXCEPT !.buffer =
        [i \in 1..Len(run.buffer) |->
            IF i > 2 * (Len(run.buffer) \div 2) THEN run.buffer[i]
            ELSE IF i % 2 = 1 THEN HighByte(color) ELSE LowByte(color)]]

\* a pixel stored with its low byte first
store_color_le(bytes, index, raw_color) ==
    [bytes EXCEPT ![index + 1] = LowByte(raw_color), ![index + 2] = HighByte(raw_color)]

\* self.buffer[index] = (raw_color >> 8) as u8; self.buffer[index + 1] = raw_color as u8;
store_color(bytes, index, raw_color) ==
    [bytes EXCEPT ![index + 1] = HighByte(raw_color), ![index + 2] = LowByte(raw_color)]

\* a bounds test that forgets the right edge
in_bounds_rows(coord) == coord.x >= 0 /\ coord.y >= 0 /\ coord.y < height

\* the test of draw_iter: coord.x >= 0 && coord.x < width && coord.y >= 0 && coord.y < height
in_bounds(coord) == coord.x >= 0 /\ coord.x < width /\ coord.y >= 0 /\ coord.y < height

\* the loop of FrameBuffer::draw_iter over pixels[i..]: a pixel is [x, y, color]
RECURSIVE draw_pixels(_, _, _)
draw_pixels(run, pixels, i) ==
    IF i > Len(pixels) \/ run.panic THEN run
    ELSE LET coord == pixels[i]
             index == (coord.y * width + coord.x) * 2
             raw_color == coord.color
         IN  IF in_bounds(coord)
             THEN IF index + 1 >= Len(run.buffer)
                  THEN [buffer |-> IF index >= Len(run.buffer) THEN run.buffer
                                   ELSE [run.buffer EXCEPT ![index + 1] = HighByte(raw_color)],
                        panic |-> TRUE]
                  ELSE draw_pixels([run EXCEPT !.buffer = store_color(@, index, raw_color)],
                                   pixels, i + 1)
             ELSE draw_pixels(run, pixels, i + 1)

\* FrameBuffer::draw_iter
FrameBuffer_draw_iter(run, pixels) == draw_pixels(run, pixels, 1)

\* a run of a frame-buffer method on the bytes `bytes`
OnBuffer(bytes) == [buffer |-> bytes, panic |-> FALSE]

----------------------------------------------------------------------------
(* The panel: what the controller does with the SPI writes it receives.     *)
(* 0x2A and 0x2B take the window's columns and rows as two words each;      *)
(* 0x2C starts a memory write at the window's first pixel, every two data   *)
(* bytes after it are one pixel, the position advancing along the row and   *)
(* wrapping inside the window; pixels outside the panel's memory are lost.  *)

\* an SPI write is a command when the data/command line is low during it
IsCommand(w) == w.dc = Low
IsData(w) == w.dc = High
IsSpi(c) == c.kind = "spi"

\* a memory byte that was never written
Unwritten == 0 - 1

\* a panel that is not followed
NoPanel ==
    [command |-> 0, params |-> <<>>, row |-> 0, followed |-> FALSE, sc |-> 0, ec |-> 0,
     sp |-> 0, ep |-> 0, col |-> 0, half |-> <<>>, mem |-> <<>>]

\* a followed panel of w x h pixels holding the bytes mem, no command received yet
PanelHolding(mem) ==
    [command |-> 0, params |-> <<>>, row |-> 0, followed |-> TRUE, sc |-> 0, ec |-> 0,
     sp |-> 0, ep |-> 0, col |-> 0, half |-> <<>>, mem |-> mem]

\* the panel after power-on: nothing written
PowerOn(w, h) == PanelHolding([i \in 1..(w * h * 2) |-> Unwritten])

\* the panel p after the command byte c
ReceiveCommand(p, c) ==
    IF c = RamWr
    THEN [p EXCEPT !.command = c, !.params = <<>>, !.col = p.sc, !.row = p.sp, !.half = <<>>]
    ELSE [p EXCEPT !.command = c, !.params = <<>>]

\* the panel p after the pixel (hi, lo) of a memory write
ReceivePixel(p, hi, lo) ==
    LET at == (p.row * width + p.col) * 2
        stored == IF p.col < width /\ p.row < height
                  THEN [p.mem EXCEPT ![at + 1] = hi, ![at + 2] = lo]
                  ELSE p.mem
        wrap == p.col >= p.ec
    IN  [p EXCEPT !.mem = stored,
                  !.half = <<>>,
                  !.col = IF wrap THEN p.sc ELSE p.col + 1,
                  !.row = IF ~wrap THEN p.row ELSE IF p.row >= p.ep THEN p.sp ELSE p.row + 1]

\* the panel p after the data byte b
ReceiveByte(p, b) ==
    IF p.command = CaSet /\ Len(p.params) < 4
    THEN LET got == Append(p.params, b)
         IN  IF Len(got) = 4
             THEN [p EXCEPT !.params = got, !.sc = Word(SubSeq(got, 1, 2)),
                            !.ec = Word(SubSeq(got, 3, 4))]
             ELSE [p EXCEPT !.params = got]
    ELSE IF p.command = RaSet /\ Len(p.params) < 4
    THEN LET got == Append(p.params, b)
         IN  IF Len(got) = 4
             THEN [p EXCEPT !.params = got, !.sp = Word(SubSeq(got, 1, 2)),
                            !.ep = Word(SubSeq(got, 3, 4))]
             ELSE [p EXCEPT !.params = got]
    ELSE IF p.command = RamWr
    THEN IF p.half = <<>> THEN [p EXCEPT !.half = <<b>>] ELSE ReceivePixel(p, p.half[1], b)
    ELSE p

\* the panel p after the bytes bytes[i..] of one data write
RECURSIVE ReceiveBytes(_, _, _)
ReceiveBytes(p, bytes, i) ==
    IF i > Len(bytes) THEN p ELSE ReceiveBytes(ReceiveByte(p, bytes[i]), bytes, i + 1)

\* the panel p after the SPI writes ww[i..]
RECURSIVE Receive(_, _, _)
Receive(p, ww, i) ==
    IF i > Len(ww) \/ ~p.followed THEN p
    ELSE Receive(IF IsCommand(ww[i]) THEN ReceiveCommand(p, ww[i].bytes[1])
                 ELSE ReceiveBytes(p, ww[i].bytes, 1),
                 ww, i + 1)

----------------------------------------------------------------------------
(* Calling a method *)

\* no call yet, or the last call's result has been taken
NoCall == [name |-> "none", args |-> <<>>, held |-> 0]

\* the number of occupied slots
Occupied(slots) == Cardinality({i \in 1..NumSlots : slots[i] # None})

\* a call as the model notes it: the method, its arguments, and the number
\* of regions the set held when it was made
Noted(name, args) == [name |-> name, args |-> args, held |-> Occupied(regions)]

\* the run of a method starts from the present levels of the lines
Start == [cs |-> cs, dc |-> dc, rst |-> rst, calls |-> <<>>, panic |-> FALSE]

\* a method that goes on to its end after the k-th call failed
AttemptedAll(run, k) == run.calls

\* a method that returns Ok whatever its pin and SPI calls returned
OutcomeIgnoringFailure(run, k) == IF run.panic THEN "Panic" ELSE "Ok"

\* the calls of a run that fail-fast leaves attempted when the k-th fails
Attempted(run, k) == IF k = 0 THEN run.calls ELSE SubSeq(run.calls, 1, k)

\* what a call returns: Err as soon as a pin or SPI call fails (every one of
\* them is followed by `?` or is the returned value)
Outcome(run, k) == IF k > 0 THEN "Err" ELSE IF run.panic THEN "Panic" ELSE "Ok"

\* the calls the transport can fail: the pin and SPI calls, not the delays
CanFail(run, j) == j = 0 \/ run.calls[j].kind # "delay"

\* A call of method `name` whose run is `run`, the transport failing the k-th
\* pin or SPI call for some k of `faults`, 0 meaning that none fails.  The
\* failing call changes no line and writes nothing; the panel receives the
\* SPI writes that succeeded.
Call(name, args, run, faults) ==
    /\ pc = "idle"
    /\ LET r == run
       IN  \E k \in {j \in 0..Len(r.calls) : j \in faults /\ CanFail(r, j)} :
              LET attempted_calls == Attempted(r, k)
                  succeeded == IF k = 0 THEN Len(r.calls) ELSE k - 1
              IN  /\ calls' = attempted_calls
                  /\ fault' = k
                  /\ cs' = IF succeeded = 0 THEN cs ELSE r.calls[succeeded].cs
                  /\ dc' = IF succeeded = 0 THEN dc ELSE r.calls[succeeded].dc
                  /\ rst' = IF succeeded = 0 THEN rst ELSE r.calls[succeeded].rst
                  /\ result' = Outcome(r, k)
                  /\ panel' = Receive(panel, SelectSeq(SubSeq(r.calls, 1, succeeded), IsSpi), 1)
    /\ op' = Noted(name, args)
    /\ pc' = "done"

\* the caller takes the result, which ends the call; a panic halts the program
Return ==
    /\ pc = "done"
    /\ result # "Panic"
    /\ pc' = "idle"
    /\ op' = NoCall
    /\ result' = "Ok"
    /\ calls' = <<>>
    /\ fault' = 0
    /\ UNCHANGED <<build, offset, regions, cs, dc, rst, frames, panel, attempted, caller>>

\* the SPI writes of the last call that reached the wire, as <<kind, bytes>>
\* ("command" with the data/command line low, "data" with it high)
Sent ==
    LET ww == SelectSeq(IF fault > 0 THEN SubSeq(calls, 1, fault - 1) ELSE calls, IsSpi)
    IN  [i \in 1..Len(ww) |-> <<IF IsCommand(ww[i]) THEN "command" ELSE "data", ww[i].bytes>>]

\* the caller takes the result of show_regions and notes what was sent
ReturnKeepingSent ==
    /\ pc = "done"
    /\ op.name = "show_regions"
    /\ result # "Panic"
    /\ kept' = {[value |-> Sent, cause |-> result]}
    /\ pc' = "idle"
    /\ op' = NoCall
    /\ result' = "Ok"
    /\ calls' = <<>>
    /\ fault' = 0
    /\ UNCHANGED <<build, offset, regions, cs, dc, rst, frames, panel, attempted, loop,
                   steps, trip>>

\* the caller drops its notes
Forget ==
    /\ pc = "idle"
    /\ kept # {}
    /\ kept' = {}
    /\ UNCHANGED <<build, offset, regions, cs, dc, rst, frames, panel, pc, op, result, calls,
                   fault, attempted, loop, steps, trip>>

\* the value inside Err: `.map_err(|_| ())` on every pin and SPI call, and
\* `Err(())` at the end of store_region; the type of both is Result<(), ()>
TransportErr == "()"
CapacityErr == "()"

\* the error value the last call returned
ErrValue == IF fault > 0 THEN TransportErr ELSE CapacityErr

\* the caller takes an Err and keeps its value; the model notes what caused it
ReturnKeeping ==
    /\ pc = "done"
    /\ result = "Err"
    /\ kept' = kept \cup {[value |-> ErrValue,
                           cause |-> IF fault > 0 THEN "transport" ELSE "capacity"]}
    /\ pc' = "idle"
    /\ op' = NoCall
    /\ result' = "Ok"
    /\ calls' = <<>>
    /\ fault' = 0
    /\ UNCHANGED <<build, offset, regions, cs, dc, rst, frames, panel, attempted, loop,
                   steps, trip>>

\* the SPI writes of the last call that reached the wire, each with the
\* levels of the data/command and chip-select lines during the write
Wire == SelectSeq(IF fault > 0 THEN SubSeq(calls, 1, fault - 1) ELSE calls, IsSpi)

\* the fault sets: any call may fail, or none
AnyFault == Nat
NoFault == {0}

\* a call of a method that uses no pin and no SPI
Plain(name, args, returned) ==
    /\ pc = "idle"
    /\ op' = Noted(name, args)
    /\ result' = returned
    /\ pc' = "done"
    /\ calls' = <<>>
    /\ fault' = 0
    /\ UNCHANGED <<cs, dc, rst, panel>>

----------------------------------------------------------------------------
(* The driver's methods as actions *)

\* pub fn init
InitDisplay(faults) ==
    /\ Call("init", <<>>, init(Start), faults)
    /\ UNCHANGED <<build, offset, regions, frames, attempted, caller>>

\* pub fn hard_reset
HardReset(faults) ==
    /\ Call("hard_reset", <<>>, hard_reset(Start), faults)
    /\ UNCHANGED <<build, offset, regions, frames, attempted, caller>>

\* pub fn set_orientation
SetOrientation(orientation, faults) ==
    /\ Call("set_orientation", <<orientation>>, set_orientation(Start, orientation), faults)
    /\ UNCHANGED <<build, offset, regions, frames, attempted, caller>>

\* pub fn set_offset
SetOffset(new_dx, new_dy) ==
    /\ Plain("set_offset", <<new_dx, new_dy>>, "Ok")
    /\ dx' = new_dx
    /\ dy' = new_dy
    /\ UNCHANGED <<build, regions, frames, attempted, caller>>

\* pub fn set_address_window
SetAddressWindow(start_x, start_y, end_x, end_y, faults) ==
    /\ Call("set_address_window", <<start_x, start_y, end_x, end_y>>,
            set_address_window(Start, start_x, start_y, end_x, end_y), faults)
    /\ UNCHANGED <<build, offset, regions, frames, attempted, caller>>

\* pub fn show_region
ShowRegion(x, y, w, h, faults) ==
    /\ Call("show_region", <<x, y, w, h>>, show_region(Start, x, y, w, h), faults)
    /\ UNCHANGED <<build, offset, regions, frames, attempted, caller>>

\* pub fn show
Show(faults) ==
    /\ Call("show", <<>>, show(Start), faults)
    /\ UNCHANGED <<build, offset, regions, frames, attempted, caller>>

\* pub fn write_pixel
WritePixel(x, y, color, faults) ==
    /\ Call("write_pixel", <<x, y, color>>, write_pixel(Start, x, y, color), faults)
    /\ UNCHANGED <<build, offset, regions, frames, attempted, caller>>

\* fn draw_iter of impl DrawTarget for GC9A01A
DrawOnDisplay(pixels, faults) ==
    /\ Call("GC9A01A::draw_iter", pixels, GC9A01A_draw_iter(Start, pixels), faults)
    /\ UNCHANGED <<build, offset, regions, frames, attempted, caller>>

\* pub fn draw_image
DrawImage(faults) ==
    /\ Call("draw_image", <<>>, draw_image(Start, buffer), faults)
    /\ UNCHANGED <<build, offset, regions, frames, attempted, caller>>

\* pub fn clear_screen
ClearScreen(color, faults) ==
    /\ Call("clear_screen", <<color>>, clear_screen(Start, color), faults)
    /\ UNCHANGED <<build, offset, regions, frames, attempted, caller>>

\* pub fn store_region
StoreRegion(region) ==
    /\ Len(attempted) < MaxAttempts
    /\ Plain("store_region", <<region.x, region.y, region.width, region.height>>,
             store_region_result)
    /\ regions' = store_region(region)
    /\ attempted' = Append(attempted, region)
    /\ UNCHANGED <<build, offset, frames, caller>>

\* pub fn store_region_from_params
StoreRegionFromParams(x, y, w, h) ==
    /\ Len(attempted) < MaxAttempts
    /\ Plain("store_region_from_params", <<x, y, w, h>>, store_region_result)
    /\ regions' = store_region(Region(x, y, w, h))
    /\ attempted' = Append(attempted, Region(x, y, w, h))
    /\ UNCHANGED <<build, offset, frames, caller>>

\* pub fn clear_regions
ClearRegions ==
    /\ Plain("clear_regions", <<>>, "Ok")
    /\ regions' = clear_regions
    /\ attempted' = <<>>
    /\ UNCHANGED <<build, offset, frames, caller>>

\* pub fn show_regions
ShowRegions(faults) ==
    /\ Call("show_regions", <<>>, show_regions(Start), faults)
    /\ regions' = regions_after_show(regions)
    /\ UNCHANGED <<build, offset, frames, attempted, caller>>

\* a show_regions_and_clear that empties the set whatever show_regions returned
regions_cleared_anyway(slots, outcome) == clear_regions

\* self.regions after show_regions_and_clear: `return Err(e)` comes before
\* self.clear_regions()
regions_after_show_and_clear(slots, outcome) == IF outcome = "Ok" THEN clear_regions ELSE slots

\* pub fn show_regions_and_clear: the set is cleared only after show_regions returned Ok
ShowRegionsAndClear(faults) ==
    /\ Call("show_regions_and_clear", <<>>, show_regions(Start), faults)
    /\ regions' = regions_after_show_and_clear(regions, result')
    /\ attempted' = IF result' = "Ok" THEN <<>> ELSE attempted
    /\ UNCHANGED <<build, offset, frames, caller>>

----------------------------------------------------------------------------
(* The frame buffer's methods as actions: `buffer` is the frame buffer's    *)
(* bytes and `background` the source buffer handed to the copies.           *)

\* the rectangle lies inside the frame buffer
Inside(x, y, w, h) == x + w <= width /\ y + h <= height

\* a call of a frame-buffer method whose run is `run`: an out-of-range slice panics
FrameCall(name, args, run) ==
    LET r == run
    IN  /\ Plain(name, args, IF r.panic THEN "Panic" ELSE "Ok")
        /\ buffer' = r.buffer
        /\ steps' = steps + 1
        /\ UNCHANGED <<build, offset, regions, background, attempted, kept, loop>>

\* pub fn copy_region (FrameBuffer)
CopyRegion(src_x, src_y, src_width, src_height, dest_x, dest_y) ==
    /\ FrameCall("copy_region", <<src_x, src_y, src_width, src_height, dest_x, dest_y>>,
                 copy_region(OnBuffer(buffer), background, src_x, src_y, src_width,
                             src_height, dest_x, dest_y))
    /\ trip' = IF src_x = dest_x /\ src_y = dest_y /\ Inside(src_x, src_y, src_width, src_height)
               THEN IF trip.stage = 1 /\ trip.region = <<src_x, src_y, src_width, src_height>>
                    THEN [trip EXCEPT !.stage = 2]
                    ELSE [stage |-> 1, region |-> <<src_x, src_y, src_width, src_height>>,
                          before |-> buffer, drew |-> FALSE]
               ELSE NoTrip

\* pub fn copy_regions (FrameBuffer), given the driver's get_regions()
CopyRegions ==
    /\ FrameCall("copy_regions", <<>>, copy_regions(OnBuffer(buffer), background, regions))
    /\ trip' = NoTrip

\* pub fn clear (FrameBuffer)
Clear(color) ==
    /\ FrameCall("clear", <<color>>, FrameBuffer_clear(OnBuffer(buffer), color))
    /\ trip' = NoTrip

\* the pixel lies in the rectangle r = <<x, y, w, h>>
PixelIn(p, r) == p.x >= r[1] /\ p.x < r[1] + r[3] /\ p.y >= r[2] /\ p.y < r[2] + r[4]

\* fn draw_iter (FrameBuffer)
DrawIter(pixels) ==
    /\ FrameCall("draw_iter", pixels, FrameBuffer_draw_iter(OnBuffer(buffer), pixels))
    /\ trip' = IF trip.stage = 1 /\ \A i \in 1..Len(pixels) : PixelIn(pixels[i], trip.region)
               THEN [trip EXCEPT !.drew = TRUE]
               ELSE NoTrip

----------------------------------------------------------------------------
(* The bounding region of the examples (fn calculate_bounding_box, the same *)
(* in gauge and watch).  A point is [x, y] with i32 coordinates; the        *)
(* padding is a u16.                                                        *)

\* Point::new(x, y)
Point(x, y) == [y |-> y, x |-> x]

\* the loop over points.iter().skip(1) from the point i on; b is
\* <<min_x, max_x, min_y, max_y>>
RECURSIVE extremes(_, _, _)
extremes(points, i, b) ==
    IF i > Len(points) THEN b
    ELSE LET point == points[i]
         IN  extremes(points, i + 1,
                      << IF point.x < b[1] THEN point.x ELSE b[1],
                         IF point.x > b[2] THEN point.x ELSE b[2],
                         IF point.y < b[3] THEN point.y ELSE b[3],
                         IF point.y > b[4] THEN point.y ELSE b[4] >>)

\* a bounding box that forgets the padding
bounding_box_unpadded(points, padding) ==
    LET b == extremes(points, 2, <<points[1].x, points[1].x, points[1].y, points[1].y>>)
    IN  Region(as_u16(b[1]), as_u16(b[3]), b[2] - b[1], b[4] - b[3])

\* fn calculate_bounding_box of a non-empty list: x and y are cast `as u16`;
\* width and height are cast `as u32` from values that are never negative
calculate_bounding_box(points, padding) ==
    LET b == extremes(points, 2, <<points[1].x, points[1].x, points[1].y, points[1].y>>)
        min_x == b[1]
        max_x == b[2]
        min_y == b[3]
        max_y == b[4]
    IN  Region(as_u16(min_x - padding), as_u16(min_y - padding),
               max_x - min_x + 2 * padding, max_y - min_y + 2 * padding)

\* a call of calculate_bounding_box: points[0] of an empty list panics; the
\* caller keeps the region as its bounding_region
CalculateBoundingBox(points, padding) ==
    /\ Plain("calculate_bounding_box", <<points, padding>>,
             IF points = <<>> THEN "Panic" ELSE "Ok")
    /\ loop' = IF points = <<>> THEN loop
               ELSE [loop EXCEPT !.bounding_region = calculate_bounding_box(points, padding)]
    /\ UNCHANGED <<build, offset, regions, frames, attempted, kept, steps, trip>>

----------------------------------------------------------------------------
(* The render loop of the gauge example (main, lines 197-277).  A tick is   *)
(* three steps: the drawing with the registration of its regions, the       *)
(* transfer, and the restoration with the reservation of the arrow's        *)
(* region.  What create_arrow draws is an input: a bounding region and      *)
(* pixels inside it; the button is drawn at a fixed place and the two texts *)
(* are the same in every tick (the values they print are constants).        *)

\* the end of a tick that registers nothing for the next one
reserve_nothing(bounding_region) == clear_regions

\* the end of a tick that registers the arrow's region without emptying the set
reserve_without_clear(bounding_region) == store_region_in(regions, bounding_region)

\* display.clear_regions(); display.store_region(bounding_region).unwrap();
reserve_region(bounding_region) == store_region_in(clear_regions, bounding_region)

\* a restoration that copies nothing
restore_nothing(bytes) == OnBuffer(bytes)

\* framebuffer.copy_regions(background_framebuffer.get_buffer(), display.get_regions());
restore_draw_buffer(bytes) == copy_regions(OnBuffer(bytes), background, regions)

\* a loop that draws into the background frame buffer
draw_target_background == "background_framebuffer"

\* the frame buffer the loop draws into: `&mut framebuffer` in the calls of
\* create_arrow, create_button and draw_text_with_background
draw_target == "framebuffer"

\* the pixels of the list pixels that lie in none of the regions of the list rr
Stray(pixels, rr) ==
    {<<pixels[i].x, pixels[i].y>> : i \in {j \in 1..Len(pixels) :
        \A k \in 1..Len(rr) :
            ~PixelIn(pixels[j], <<rr[k].x, rr[k].y, rr[k].width, rr[k].height>>)}}

\* a store whose error is dropped
unwrap_ignoring_error(r) == "Ok"

\* Result::unwrap on what store_region returned: Err(()) panics
unwrap(r) == IF r = "Err" THEN "Panic" ELSE r

\* what store_region returns on the slots `slots`
store_region_result_in(slots) == IF FirstEmpty(slots) = 0 THEN "Err" ELSE "Ok"

\* create_arrow, store_region, create_button, and draw_text_with_background
\* with store_region twice (lines 228-260); a store that fails panics in unwrap
\* and what comes after it in the tick is not executed
GaugeDraw(arrow, west, east) ==
    /\ loop.at = "draw"
    /\ pc = "idle"
    /\ LET bounding_region == arrow.region
           canvas == IF draw_target = "framebuffer" THEN buffer ELSE background
           f1 == FrameBuffer_draw_iter(OnBuffer(canvas), arrow.pixels)
           u1 == unwrap(store_region_result_in(regions))
           r1 == store_region_in(regions, bounding_region)
           f2 == FrameBuffer_draw_iter(f1, loop.button)
           f3 == FrameBuffer_draw_iter(f2, west.pixels)
           u2 == unwrap(store_region_result_in(r1))
           r2 == store_region_in(r1, west.region)
           f4 == FrameBuffer_draw_iter(f3, east.pixels)
           u3 == unwrap(store_region_result_in(r2))
           r3 == store_region_in(r2, east.region)
           h1 == f1.panic
           h2 == h1 \/ u1 = "Panic"
           h3 == h2 \/ f2.panic
           h4 == h3 \/ f3.panic
           h5 == h4 \/ u2 = "Panic"
           h6 == h5 \/ f4.panic
           h7 == h6 \/ u3 = "Panic"
           drawn == IF h2 THEN f1 ELSE IF h3 THEN f2 ELSE IF h5 THEN f3 ELSE f4
       IN  /\ buffer' = IF draw_target = "framebuffer" THEN drawn.buffer ELSE buffer
           /\ background' = IF draw_target = "framebuffer" THEN background ELSE drawn.buffer
           /\ regions' = IF h1 THEN regions ELSE IF h4 THEN r1 ELSE IF h6 THEN r2 ELSE r3
           /\ attempted' = attempted \o <<bounding_region, west.region, east.region>>
           /\ result' = IF h7 THEN "Panic" ELSE "Ok"
           /\ pc' = IF h7 THEN "done" ELSE "idle"
           /\ loop' = [loop EXCEPT
                  !.at = "show",
                  !.bounding_region = bounding_region,
                  !.stray = @ \cup Stray(arrow.pixels \o loop.button \o west.pixels \o east.pixels,
                                         <<bounding_region, west.region, east.region>>)]
    /\ UNCHANGED <<build, offset, cs, dc, rst, panel, op, calls, fault, kept, steps, trip>>

\* display.show_regions(framebuffer.get_buffer()).unwrap() (line 263)
GaugeShow(faults) ==
    /\ loop.at = "show"
    /\ Call("show_regions", <<>>, show_regions(Start), faults)
    /\ loop' = [loop EXCEPT !.at = "restore"]
    /\ UNCHANGED <<build, offset, regions, frames, attempted, kept, steps, trip>>

\* unwrap has returned; copy_regions, clear_regions, store_region and the
\* pacing delay (lines 265-276)
GaugeRestore ==
    /\ loop.at = "restore"
    /\ pc = "done"
    /\ result = "Ok"
    /\ LET restored == restore_draw_buffer(buffer)
       IN  /\ buffer' = restored.buffer
           /\ regions' = reserve_region(loop.bounding_region)
           /\ attempted' = <<loop.bounding_region>>
           /\ result' = IF restored.panic THEN "Panic" ELSE "Ok"
           /\ pc' = IF restored.panic THEN "done" ELSE "idle"
    /\ op' = NoCall
    /\ calls' = <<>>
    /\ fault' = 0
    /\ loop' = [loop EXCEPT !.at = "draw"]
    /\ UNCHANGED <<build, offset, cs, dc, rst, background, panel, kept, steps, trip>>

\* show_regions has returned Err(()): unwrap panics and the panic handler
\* (panic_halt) stops the program
GaugePanic ==
    /\ loop.at = "restore"
    /\ pc = "done"
    /\ result = "Err"
    /\ result' = "Panic"
    /\ UNCHANGED <<build, offset, regions, cs, dc, rst, frames, panel, pc, op, calls, fault,
                   attempted, caller>>

----------------------------------------------------------------------------
(* Inputs *)

\* a frame buffer of w x h pixels whose bytes differ from index to index
TestBuffer(w, h) == [i \in 1..(w * h * 2) |-> ((i - 1) * 37 + 11) % 256]

\* the offsets passed to set_offset; the last one overflows a u16 coordinate
Offsets == {<<0, 0>>, <<1, 2>>, <<U16 - 1, 1>>}

\* a second buffer of w x h pixels, different from TestBuffer at every byte
CleanBuffer(w, h) == [i \in 1..(w * h * 2) |-> ((i - 1) * 53 + 7) % 256]

\* the coordinates passed to set_address_window
Coordinates == {0, 1, 258, U16 - 1}

\* 0xF800 and 0x0102
Colors == {63488, 258}

\* the regions passed to show_region on a w x h panel: every region inside
\* the panel, the empty ones, and those one pixel too wide or too high
ShowInputs(w, h) ==
    {r \in (0..(w - 1)) \X (0..(h - 1)) \X (0..(w + 1)) \X (0..(h + 1)) :
        r[1] + r[3] <= w + 1 /\ r[2] + r[4] <= h + 1}

\* the regions of positive size inside a w x h panel
InsideInputs(w, h) ==
    {r \in ShowInputs(w, h) : r[3] >= 1 /\ r[4] >= 1 /\ r[1] + r[3] <= w /\ r[2] + r[4] <= h}

\* the regions passed to store_region
StoreInputs == {Region(0, 0, 1, 1), Region(1, 0, 2, 1)}

\* the regions stored before copy_regions: they share the pixel (1, 0)
FrameRegions == {Region(0, 0, 2, 1), Region(1, 0, 2, 2)}

\* Pixel(Point::new(x, y), color)
Pixel(x, y, color) == [color |-> color, y |-> y, x |-> x]

\* the pixel lists passed to draw_iter; the last three have pixels outside the
\* buffer: left of it and below it, right of it and above it, and a pixel
\* inside followed by one far outside
PixelInputs ==
    { <<Pixel(1, 0, 63488)>>,
      <<Pixel(1, 0, 258), Pixel(2, 1, 63488)>>,
      <<Pixel(0, 0, 258)>>,
      <<Pixel(0 - 1, 0, 258), Pixel(0, PanelHeight, 63488)>>,
      <<Pixel(PanelWidth, 0, 258), Pixel(1, 0 - 1, 63488), Pixel(0 - 1, 0 - 1, 258)>>,
      <<Pixel(1, 1, 258), Pixel(U16, U16 + 1, 63488)>> }

\* the copies passed to copy_region, <<src_x, src_y, src_width, src_height, dest_x, dest_y>>:
\* to another origin, onto itself, of no width, with a source past the
\* right edge, a destination past the last row, a destination past the right
\* edge, and a source past the last row
CopyInputs ==
    { <<0, 0, 2, 1, 1, 1>>,
      <<1, 0, 2, 2, 0, 0>>,
      <<1, 1, 1, 1, 0, 0>>,
      <<1, 0, 2, 2, 1, 0>>,
      <<0, 0, 1, 1, 0, 0>>,
      <<0, 0, 0, 1, 2, 1>>,
      <<PanelWidth - 1, 0, 2, 1, 0, 1>>,
      <<0, 0, 1, 2, 0, PanelHeight - 1>>,
      <<0, 0, 2, 1, PanelWidth - 1, 0>>,
      <<0, PanelHeight - 1, 1, 2, 0, 0>> }

\* what create_arrow draws: a bounding region and pixels inside it.  The
\* second region lies inside the first, the third is disjoint from both.
GaugeShapes ==
    { [region |-> Region(0, 0, 2, 2), pixels |-> <<Pixel(0, 1, 63488), Pixel(1, 0, 63488)>>],
      [region |-> Region(1, 1, 1, 1), pixels |-> <<Pixel(1, 1, 63488)>>],
      [region |-> Region(1, 0, 2, 2), pixels |-> <<Pixel(1, 0, 63488), Pixel(2, 1, 4864)>>],
      [region |-> Region(2, 1, 1, 1), pixels |-> <<Pixel(2, 1, 63488)>>] }

\* the two texts, drawn in black at fixed places
WestText == [region |-> Region(0, 0, 1, 1), pixels |-> <<Pixel(0, 0, 0)>>]
EastText == [region |-> Region(2, 0, 1, 1), pixels |-> <<Pixel(2, 0, 0)>>]

\* where create_button draws, in black: under the west text, or in the middle
ButtonInputs == { <<Pixel(0, 0, 0)>>, <<Pixel(1, 1, 0)>> }

\* the pixel lists drawn after a clear: the middle pixel in black, a pixel
\* written twice, and a pixel of the last row with one past the right edge
PaintInputs ==
    { <<Pixel(1, 1, 0)>>,
      <<Pixel(3, 0, 258), Pixel(3, 0, 4660)>>,
      <<Pixel(2, 3, 4660), Pixel(PaintWidth, 0, 258)>> }

\* the regions shown after painting
PaintRegions == { <<0, 0, 2, 2>>, <<1, 1, 3, 2>> }

\* the coordinates of the points handed to calculate_bounding_box
BoxCoordinates == {0, 1, 7}

\* the points with these coordinates
BoxPoints == {Point(x, y) : x \in BoxCoordinates, y \in BoxCoordinates}

\* the point lists handed to calculate_bounding_box: every list of one or
\* two points, three points spread over the panel, a point left of the
\* panel, and no point at all
PointInputs ==
    {<<p>> : p \in BoxPoints} \cup (BoxPoints \X BoxPoints)
        \cup { <<Point(10, 10), Point(50, 10), Point(30, 40)>>,
                <<Point(4, 1), Point(0 - 2, 3)>>,
                <<>> }

\* the paddings handed to calculate_bounding_box
Paddings == {0, 1, 5}

\* the regions stored before a transfer to a followed panel: they share the
\* pixel (1, 0), and each may be stored more than once
UnionInputs == {Region(0, 0, 2, 1), Region(1, 0, 2, 2)}

\* the pixel lists drawn between these transfers
UnionPixels == { <<Pixel(1, 0, 63488)>>, <<Pixel(0, 0, 258), Pixel(2, 1, 63488)>> }

\* the copies of the round trip: two regions onto themselves, one elsewhere
TripInputs == { <<1, 0, 2, 2, 1, 0>>, <<0, 0, 1, 1, 0, 0>>, <<0, 0, 2, 1, 1, 1>> }

----------------------------------------------------------------------------
(* Specifications *)

InitDriver(w, h) ==
    /\ width = w
    /\ height = h
    /\ dx = 0
    /\ dy = 0
    /\ regions = NoRegions
    /\ cs \in {High, Low}
    /\ dc \in {High, Low}
    /\ rst = High
    /\ buffer = TestBuffer(w, h)
    /\ background = CleanBuffer(w, h)
    /\ panel = NoPanel
    /\ overflowChecks \in BOOLEAN
    /\ pc = "idle"
    /\ op = NoCall
    /\ result = "Ok"
    /\ calls = <<>>
    /\ fault = 0
    /\ attempted = <<>>
    /\ kept = {}
    /\ loop = NoLoop
    /\ steps = 0
    /\ trip = NoTrip

\* the transfer protocol on a small panel, any pin or SPI call failing
Init ==
    /\ InitDriver(PanelWidth, PanelHeight)
    /\ rgb = FALSE

Next ==
    \/ \E o \in Offsets : SetOffset(o[1], o[2])
    \/ \E sx \in Coordinates, ex \in Coordinates, sy \in {0, 258}, ey \in {1, U16 - 1} :
         SetAddressWindow(sx, sy, ex, ey, AnyFault)
    \/ \E r \in ShowInputs(PanelWidth, PanelHeight) :
         ShowRegion(r[1], r[2], r[3], r[4], AnyFault)
    \/ Show(AnyFault)
    \/ \E x \in {0, PanelWidth - 1}, y \in {0, PanelHeight - 1}, color \in Colors :
         WritePixel(x, y, color, AnyFault)
    \/ DrawImage(AnyFault)
    \/ \E color \in Colors : ClearScreen(color, AnyFault)
    \/ Return

Spec == Init /\ [][Next]_vars

\* the row streaming on a panel whose rows take several chunks, no call failing
InitChunk ==
    /\ InitDriver(WideWidth, WideHeight)
    /\ rgb = FALSE
    /\ cs = High
    /\ dc = High
    /\ overflowChecks

NextChunk ==
    \/ \E r \in InsideInputs(WideWidth, WideHeight) :
         ShowRegion(r[1], r[2], r[3], r[4], NoFault)
    \/ DrawImage(NoFault)
    \/ Return

SpecChunk == InitChunk /\ [][NextChunk]_vars

\* the region set; the transport may fail the first call of a transfer
FirstFault == {0, 1}

InitRegions ==
    /\ InitDriver(PanelWidth, PanelHeight)
    /\ rgb = FALSE
    /\ cs = High
    /\ dc = High
    /\ overflowChecks

NextRegions ==
    \/ \E r \in StoreInputs : StoreRegion(r)
    \/ \E r \in StoreInputs : StoreRegionFromParams(r.x, r.y, r.width, r.height)
    \/ ClearRegions
    \/ ShowRegions(FirstFault)
    \/ ShowRegionsAndClear(FirstFault)
    \/ Return

SpecRegions == InitRegions /\ [][NextRegions]_vars

\* every fallible method, any pin or SPI call failing; the panel is brought
\* up (init, hard_reset, set_orientation) before regions are stored
InitFaults ==
    /\ InitDriver(PanelWidth, PanelHeight)
    /\ rgb \in BOOLEAN
    /\ cs = High
    /\ dc = High
    /\ overflowChecks

NextFaults ==
    \/ attempted = <<>> /\ InitDisplay(AnyFault)
    \/ attempted = <<>> /\ HardReset(AnyFault)
    \/ \E o \in Orientations : attempted = <<>> /\ SetOrientation(o, AnyFault)
    \/ SetAddressWindow(0, 0, PanelWidth - 1, PanelHeight - 1, AnyFault)
    \/ ClearScreen(63488, AnyFault)
    \/ WritePixel(1, 1, 258, AnyFault)
    \/ DrawImage(AnyFault)
    \/ Show(AnyFault)
    \/ ShowRegion(1, 0, 2, 2, AnyFault)
    \/ \E r \in StoreInputs : Len(attempted) < MaxStored /\ StoreRegion(r)
    \/ ClearRegions
    \/ ShowRegions(AnyFault)
    \/ Return

SpecFaults == InitFaults /\ [][NextFaults]_vars

\* the errors a caller gets: a store on a full set, a transfer the transport fails
InitErrors ==
    /\ InitDriver(PanelWidth, PanelHeight)
    /\ rgb = FALSE
    /\ overflowChecks

NextErrors ==
    \/ StoreRegion(Region(0, 0, 1, 1))
    \/ ClearRegions
    \/ ShowRegions(FirstFault)
    \/ ShowRegion(0, 0, 1, 1, FirstFault)
    \/ Return
    \/ ReturnKeeping

SpecErrors == InitErrors /\ [][NextErrors]_vars

\* the frame buffer restored from the background buffer
InitFrame ==
    /\ InitDriver(PanelWidth, PanelHeight)
    /\ rgb = FALSE
    /\ cs = High
    /\ dc = High
    /\ overflowChecks

NextFrame ==
    \/ \E c \in CopyInputs : steps < MaxCopies /\ CopyRegion(c[1], c[2], c[3], c[4], c[5], c[6])
    \/ steps < MaxCopies /\ CopyRegions
    \/ \E pixels \in PixelInputs : steps < MaxCopies /\ DrawIter(pixels)
    \/ \E r \in FrameRegions : Len(attempted) < MaxStored /\ StoreRegion(r)
    \/ Return

SpecFrame == InitFrame /\ [][NextFrame]_vars

\* the gauge's render loop once the image has been drawn into both buffers
\* and shown on the panel (main, lines 148-183), no pin or SPI call failing
InitGauge ==
    /\ width = PanelWidth
    /\ height = PanelHeight
    /\ rgb = FALSE
    /\ dx = 0
    /\ dy = 0
    /\ regions = NoRegions
    /\ cs = High
    /\ dc = High
    /\ rst = High
    /\ background = CleanBuffer(PanelWidth, PanelHeight)
    /\ buffer = background
    /\ panel = PanelHolding(background)
    /\ overflowChecks \in BOOLEAN
    /\ pc = "idle"
    /\ op = NoCall
    /\ result = "Ok"
    /\ calls = <<>>
    /\ fault = 0
    /\ attempted = <<>>
    /\ kept = {}
    /\ \E b \in ButtonInputs : loop = [at |-> "draw", bounding_region |-> <<>>,
                                        button |-> b, stray |-> {}]
    /\ steps = 0
    /\ trip = NoTrip

NextGauge ==
    \/ \E arrow \in GaugeShapes : GaugeDraw(arrow, WestText, EastText)
    \/ GaugeShow(NoFault)
    \/ GaugeRestore

SpecGauge == InitGauge /\ [][NextGauge]_vars

\* the gauge's render loop, any pin or SPI call of a transfer failing
NextGaugeFaults ==
    \/ \E arrow \in GaugeShapes : GaugeDraw(arrow, WestText, EastText)
    \/ GaugeShow(AnyFault)
    \/ GaugeRestore
    \/ GaugePanic

SpecGaugeFaults == InitGauge /\ [][NextGaugeFaults]_vars

\* a frame buffer cleared, drawn into and shown by region
InitPaint ==
    /\ InitDriver(PaintWidth, PaintHeight)
    /\ rgb = FALSE
    /\ cs = High
    /\ dc = High
    /\ overflowChecks

NextPaint ==
    \/ \E color \in Colors : steps < MaxPaintOps /\ Clear(color)
    \/ \E pixels \in PaintInputs : steps < MaxPaintOps /\ DrawIter(pixels)
    \/ \E r \in PaintRegions : ShowRegion(r[1], r[2], r[3], r[4], NoFault)
    \/ Return

SpecPaint == InitPaint /\ [][NextPaint]_vars

\* bounding regions computed beside a driver and its frame buffers
InitBox ==
    /\ InitDriver(BoxWidth, BoxHeight)
    /\ rgb = FALSE
    /\ cs = High
    /\ dc = High
    /\ overflowChecks

NextBox ==
    \/ \E points \in PointInputs : \E padding \in Paddings :
            CalculateBoundingBox(points, padding)
    \/ Return

SpecBox == InitBox /\ [][NextBox]_vars

\* transfers repeated by a caller that notes what show_regions sent; the first
\* pin or SPI call of a transfer may fail
InitRepeat ==
    /\ InitDriver(PanelWidth, PanelHeight)
    /\ rgb = FALSE
    /\ cs = High
    /\ dc = High
    /\ overflowChecks

NextRepeat ==
    \/ \E r \in StoreInputs : kept = {} /\ Len(attempted) < MaxStored /\ StoreRegion(r)
    \/ kept = {} /\ ClearRegions
    \/ ShowRegions(FirstFault)
    \/ ShowRegion(1, 0, 2, 2, FirstFault)
    \/ Show(FirstFault)
    \/ Return
    \/ ReturnKeepingSent
    \/ Forget

SpecRepeat == InitRepeat /\ [][NextRepeat]_vars

\* regions stored, the buffer drawn into, and the set shown on a panel that
\* is followed from power-on; no pin or SPI call fails
InitUnion ==
    /\ width = PanelWidth
    /\ height = PanelHeight
    /\ rgb = FALSE
    /\ dx = 0
    /\ dy = 0
    /\ regions = NoRegions
    /\ cs = High
    /\ dc = High
    /\ rst = High
    /\ buffer = TestBuffer(PanelWidth, PanelHeight)
    /\ background = CleanBuffer(PanelWidth, PanelHeight)
    /\ panel = PowerOn(PanelWidth, PanelHeight)
    /\ overflowChecks = TRUE
    /\ pc = "idle"
    /\ op = NoCall
    /\ result = "Ok"
    /\ calls = <<>>
    /\ fault = 0
    /\ attempted = <<>>
    /\ kept = {}
    /\ loop = NoLoop
    /\ steps = 0
    /\ trip = NoTrip

NextUnion ==
    \/ \E r \in UnionInputs : Len(attempted) < MaxStored /\ StoreRegion(r)
    \/ ClearRegions
    \/ \E pixels \in UnionPixels : steps < MaxCopies /\ DrawIter(pixels)
    \/ ShowRegions(NoFault)
    \/ Return

SpecUnion == InitUnion /\ [][NextUnion]_vars

\* a region copied onto itself, drawn into, and copied again
NextRoundTrip ==
    \/ \E c \in TripInputs : steps < MaxTripOps /\ CopyRegion(c[1], c[2], c[3], c[4], c[5], c[6])
    \/ \E pixels \in PixelInputs : steps < MaxTripOps /\ DrawIter(pixels)
    \/ Return

SpecRoundTrip == InitFrame /\ [][NextRoundTrip]_vars

----------------------------------------------------------------------------
(* Reading the wire *)

\* the bytes of the writes ww[from..to], in order
RECURSIVE Flatten(_, _, _)
Flatten(ww, from, to) ==
    IF from > to THEN <<>> ELSE ww[from].bytes \o Flatten(ww, from + 1, to)

\* the bytes of the rectangle (x, y, w, h) of a buffer of `stride` pixels per
\* row, row by row
RectBytes(buf, stride, x, y, w, h) ==
    [i \in 1..(w * h * 2) |->
        buf[((y + (i - 1) \div (2 * w)) * stride + x) * 2 + ((i - 1) % (2 * w)) + 1]]

\* the last call was method `name` and has returned
Returned(name) == pc = "done" /\ op.name = name

\* the arguments of the last call describe a region of positive size inside the panel
InsidePanel(args) ==
    /\ args[3] >= 1
    /\ args[4] >= 1
    /\ args[1] + args[3] <= width
    /\ args[2] + args[4] <= height

----------------------------------------------------------------------------
(* C1: in every show_region call the SPI writes come in the order           *)
(* column-address-set command, two coordinate words, row-address-set        *)
(* command, two coordinate words, memory-write command, then pixel data     *)
(* only: no data other than the four words precedes the memory-write        *)
(* command, no command follows it, a call that returns Ok has sent all      *)
(* three commands, and the call starts from and ends in the idle state.     *)
C1_TransferOrder ==
    Returned("show_region") =>
        /\ \A i \in 1..Len(Wire) :
              /\ i = 1 => IsCommand(Wire[i]) /\ Wire[i].bytes = <<CaSet>>
              /\ i \in {2, 3, 5, 6} => IsData(Wire[i]) /\ Len(Wire[i].bytes) = 2
              /\ i = 4 => IsCommand(Wire[i]) /\ Wire[i].bytes = <<RaSet>>
              /\ i = 7 => IsCommand(Wire[i]) /\ Wire[i].bytes = <<RamWr>>
              /\ i > 7 => IsData(Wire[i])
        /\ result = "Ok" => Len(Wire) >= 7

\* a show_region call that returned Ok after streaming several pixel writes
C1_Witness ==
    /\ Returned("show_region")
    /\ result = "Ok"
    /\ Len(Wire) >= 9

----------------------------------------------------------------------------
(* C2: show_region(buffer, x, y, width, height) on a region of positive     *)
(* size inside the panel sends the window of exactly the region's bounds:   *)
(* the column words are x and x + width - 1, the row words y and            *)
(* y + height - 1, each shifted by the driver's offset (as a u16), and a    *)
(* call that returns Ok has sent all four.                                  *)
C2_WindowIsRegion ==
    (Returned("show_region") /\ InsidePanel(op.args)) =>
        LET x == op.args[1]
            y == op.args[2]
            w == op.args[3]
            h == op.args[4]
        IN  /\ Len(Wire) >= 2 => Word(Wire[2].bytes) = (x + dx) % U16
            /\ Len(Wire) >= 3 => Word(Wire[3].bytes) = (x + w - 1 + dx) % U16
            /\ Len(Wire) >= 5 => Word(Wire[5].bytes) = (y + dy) % U16
            /\ Len(Wire) >= 6 => Word(Wire[6].bytes) = (y + h - 1 + dy) % U16
            /\ result = "Ok" => Len(Wire) >= 6

\* an Ok transfer of a region with x > 0, y > 0 and more than one column, under an offset
C2_Witness ==
    /\ Returned("show_region")
    /\ InsidePanel(op.args)
    /\ result = "Ok"
    /\ op.args[1] > 0
    /\ op.args[2] > 0
    /\ op.args[3] > 1
    /\ dx = 1
    /\ dy = 2

----------------------------------------------------------------------------
(* C3: for a region inside the panel, the pixel writes of a show_region     *)
(* that returns Ok, concatenated, are the buffer's bytes of the rectangle   *)
(* row by row (stride = the driver's width, 2 bytes per pixel): exactly     *)
(* width*height*2 bytes, the size of the window that was sent.              *)
C3_PixelsAreRectangle ==
    (Returned("show_region") /\ InsidePanel(op.args) /\ result = "Ok") =>
        LET x == op.args[1]
            y == op.args[2]
            w == op.args[3]
            h == op.args[4]
            sent == Flatten(Wire, 8, Len(Wire))
            columns == Word(Wire[3].bytes) - Word(Wire[2].bytes) + 1
            rows == Word(Wire[6].bytes) - Word(Wire[5].bytes) + 1
        IN  /\ sent = RectBytes(buffer, width, x, y, w, h)
            /\ Len(sent) = w * h * 2
            /\ Len(sent) = columns * rows * 2

\* an Ok transfer of two rows that start past column 0 and end before the last column
C3_Witness ==
    /\ Returned("show_region")
    /\ result = "Ok"
    /\ op.args[1] > 0
    /\ op.args[1] + op.args[3] < width
    /\ op.args[3] > 16
    /\ op.args[4] = 2

----------------------------------------------------------------------------
(* C4: show_region streams each row of n = 2*width bytes as ceil(n/32)      *)
(* data writes, each of 32 bytes except a last one of n mod 32 bytes when   *)
(* 32 does not divide n (100 bytes: 32, 32, 32, 4); no write spans two      *)
(* rows, and the writes of a row concatenated are the row's bytes.          *)
(* draw_image cuts the whole image the same way.                            *)
C4_Chunking ==
    /\ (Returned("show_region") /\ InsidePanel(op.args) /\ result = "Ok") =>
          LET x == op.args[1]
              y == op.args[2]
              w == op.args[3]
              h == op.args[4]
              n == 2 * w
              perRow == (n + ChunkBytes - 1) \div ChunkBytes
          IN  /\ Len(Wire) = 7 + h * perRow
              /\ \A row \in 0..(h - 1) :
                    /\ \A j \in 1..perRow :
                          Len(Wire[7 + row * perRow + j].bytes) =
                              IF j < perRow \/ n % ChunkBytes = 0 THEN ChunkBytes
                              ELSE n % ChunkBytes
                    /\ Flatten(Wire, 7 + row * perRow + 1, 7 + (row + 1) * perRow)
                          = RectBytes(buffer, width, x, y + row, w, 1)
              /\ n = 100 => [j \in 1..perRow |-> Len(Wire[7 + j].bytes)] = <<32, 32, 32, 4>>
    /\ (Returned("draw_image") /\ result = "Ok") =>
          LET n == Len(buffer)
              pieces == (n + ChunkBytes - 1) \div ChunkBytes
          IN  /\ Len(Wire) = 7 + pieces
              /\ \A j \in 1..pieces :
                    Len(Wire[7 + j].bytes) =
                        IF j < pieces \/ n % ChunkBytes = 0 THEN ChunkBytes
                        ELSE n % ChunkBytes
              /\ Flatten(Wire, 8, Len(Wire)) = buffer

\* an Ok transfer of two rows of 100 bytes: eight pixel writes
C4_Witness ==
    /\ Returned("show_region")
    /\ result = "Ok"
    /\ op.args[3] = 50
    /\ op.args[4] = 2
    /\ Len(Wire) = 15

----------------------------------------------------------------------------
(* C5: set_address_window(start_x, start_y, end_x, end_y) writes, in this   *)
(* order, the command 0x2A, the words start_x + dx and end_x + dx, the      *)
(* command 0x2B and the words start_y + dy and end_y + dy, each word as     *)
(* two data bytes, most significant first (the sums taken as u16): a call   *)
(* that returns Ok has written all six, a failed one a prefix of them.      *)
C5_AddressWindowBytes ==
    Returned("set_address_window") =>
        LET sx == (op.args[1] + dx) % U16
            sy == (op.args[2] + dy) % U16
            ex == (op.args[3] + dx) % U16
            ey == (op.args[4] + dy) % U16
            expected == <<
                [dc |-> Low,  bytes |-> <<42>>],
                [dc |-> High, bytes |-> <<sx \div 256, sx % 256>>],
                [dc |-> High, bytes |-> <<ex \div 256, ex % 256>>],
                [dc |-> Low,  bytes |-> <<43>>],
                [dc |-> High, bytes |-> <<sy \div 256, sy % 256>>],
                [dc |-> High, bytes |-> <<ey \div 256, ey % 256>>] >>
        IN  /\ Len(Wire) <= 6
            /\ \A i \in 1..Len(Wire) :
                  Wire[i].dc = expected[i].dc /\ Wire[i].bytes = expected[i].bytes
            /\ result = "Ok" => Len(Wire) = 6

\* an Ok call under the offset (1, 2) whose start column 258 has a non-zero high byte
C5_Witness ==
    /\ Returned("set_address_window")
    /\ result = "Ok"
    /\ op.args[1] = 258
    /\ dx = 1
    /\ dy = 2

----------------------------------------------------------------------------
(* The window a call sent: the data bytes between the column command and    *)
(* the row command, and those between the row command and the memory-write  *)
(* command, two words each.                                                 *)

\* the index of the first write of the wire that is the command c (0: none)
CommandAt(c) ==
    IF \E i \in 1..Len(Wire) : IsCommand(Wire[i]) /\ Wire[i].bytes = <<c>>
    THEN CHOOSE i \in 1..Len(Wire) :
            /\ IsCommand(Wire[i]) /\ Wire[i].bytes = <<c>>
            /\ \A j \in 1..(i - 1) : ~(IsCommand(Wire[j]) /\ Wire[j].bytes = <<c>>)
    ELSE 0

\* the window was sent in full
WindowSent == CommandAt(42) = 1 /\ CommandAt(43) > 1 /\ CommandAt(44) > CommandAt(43)

ColumnBytes == Flatten(Wire, 2, CommandAt(43) - 1)
RowBytes == Flatten(Wire, CommandAt(43) + 1, CommandAt(44) - 1)

\* the window <<start column, end column, start row, end row>> on the wire
SentWindow ==
    <<Word(SubSeq(ColumnBytes, 1, 2)), Word(SubSeq(ColumnBytes, 3, 4)),
      Word(SubSeq(RowBytes, 1, 2)), Word(SubSeq(RowBytes, 3, 4))>>

\* the window of the last call before the offset is applied
\* <<start column, end column, start row, end row>>; show's is the one its literals name
RequestedWindow ==
    CASE op.name = "set_address_window" -> <<op.args[1], op.args[3], op.args[2], op.args[4]>>
      [] op.name = "show_region" ->
            <<op.args[1], op.args[1] + op.args[3] - 1, op.args[2], op.args[2] + op.args[4] - 1>>
      [] op.name = "write_pixel" -> <<op.args[1], op.args[1], op.args[2], op.args[2]>>
      [] op.name \in {"clear_screen", "draw_image"} -> <<0, width - 1, 0, height - 1>>
      [] OTHER -> <<0, 239, 0, 239>>

\* the window w shifted by the offset, as u16 coordinates
Shifted(w) == <<(w[1] + dx) % U16, (w[2] + dx) % U16, (w[3] + dy) % U16, (w[4] + dy) % U16>>

WindowMethods == {"set_address_window", "show_region", "write_pixel", "clear_screen", "draw_image"}

----------------------------------------------------------------------------
(* C6: after set_offset(dx, dy), every later call that sends an address     *)
(* window (set_address_window, show_region, clear_screen, write_pixel,      *)
(* draw_image and show) sends column coordinates shifted by dx and row      *)
(* coordinates shifted by dy.                                               *)
C6_OffsetApplied ==
    (pc = "done" /\ op.name \in WindowMethods \cup {"show"} /\ WindowSent) =>
        SentWindow = Shifted(RequestedWindow)

\* the same for the methods that go through set_address_window
C6_OffsetAppliedExceptShow ==
    (pc = "done" /\ op.name \in WindowMethods /\ WindowSent) =>
        SentWindow = Shifted(RequestedWindow)

\* the offset changes in set_offset only
C6_OffsetPersists == [][(dx' # dx \/ dy' # dy) => op'.name = "set_offset"]_vars

----------------------------------------------------------------------------
(* C7: show(buffer) sends the window of the whole panel, columns            *)
(* 0..width-1 and rows 0..height-1 of the driver's width and height, then   *)
(* the memory-write command, then the whole buffer as one data write.       *)
C7_ShowWholePanel ==
    (Returned("show") /\ result = "Ok") =>
        /\ WindowSent
        /\ SentWindow = <<0, width - 1, 0, height - 1>>
        /\ Len(Wire) = CommandAt(44) + 1
        /\ IsData(Wire[Len(Wire)])
        /\ Wire[Len(Wire)].bytes = buffer

\* what show does send: the window 0..239 whatever the driver's width and
\* height, then the command and the buffer in one write
C7_ShowSends240 ==
    (Returned("show") /\ result = "Ok") =>
        /\ WindowSent
        /\ SentWindow = <<0, 239, 0, 239>>
        /\ Len(Wire) = CommandAt(44) + 1
        /\ IsData(Wire[Len(Wire)])
        /\ Wire[Len(Wire)].bytes = buffer

----------------------------------------------------------------------------
(* Reading the region set *)

StoreMethods == {"store_region", "store_region_from_params"}

\* the region a store call was given
StoredArgument == Region(op.args[1], op.args[2], op.args[3], op.args[4])

EmptySlots(slots) == {i \in 1..NumSlots : slots[i] = None}

\* the smallest element of a non-empty set of numbers
Lowest(S) == CHOOSE i \in S : \A j \in S : i <= j

\* a store call is made in this step
StoreStep == pc = "idle" /\ pc' = "done" /\ op'.name \in StoreMethods

----------------------------------------------------------------------------
(* C8: when at least one of the 10 slots is empty, store_region(r) (and     *)
(* store_region_from_params) returns Ok, writes r into the empty slot of    *)
(* lowest index and leaves every other slot unchanged.                      *)
C8_StoreFirstEmpty ==
    [][(StoreStep /\ EmptySlots(regions) # {}) =>
          /\ result' = "Ok"
          /\ regions'[Lowest(EmptySlots(regions))] = <<StoredArgument'>>
          /\ \A i \in 1..NumSlots :
                i # Lowest(EmptySlots(regions)) => regions'[i] = regions[i]]_vars

\* a store that returned Ok and filled the fourth slot, the slots after it empty
C8_Witness ==
    /\ pc = "done"
    /\ op.name \in StoreMethods
    /\ result = "Ok"
    /\ regions[4] = <<StoredArgument>>
    /\ regions[3] # None
    /\ regions[5] = None

----------------------------------------------------------------------------
(* C9: starting from an empty set, the first 10 store_region calls return   *)
(* Ok; every further store_region call while the 10 slots are occupied      *)
(* returns Err, without a panic, and leaves the 10 stored regions as they   *)
(* were.                                                                    *)
C9_Capacity ==
    /\ [](pc = "done" /\ op.name \in StoreMethods =>
             result = IF Len(attempted) <= 10 THEN "Ok" ELSE "Err")
    /\ [][(StoreStep /\ EmptySlots(regions) = {}) =>
             result' = "Err" /\ regions' = regions]_vars

\* the eleventh store since the last clear has returned Err, the set holding two different regions
C9_Witness ==
    /\ pc = "done"
    /\ op.name \in StoreMethods
    /\ Len(attempted) = 11
    /\ result = "Err"
    /\ regions[10] # <<attempted[11]>>
    /\ EmptySlots(regions) = {}

----------------------------------------------------------------------------
(* C10: after any sequence of store_region, store_region_from_params,       *)
(* clear_regions, show_regions and show_regions_and_clear calls the         *)
(* occupied slots are a prefix of the 10 slots (no empty slot precedes an   *)
(* occupied one) and hold, in order, the regions stored since the last      *)
(* clear.                                                                   *)
C10_ContiguousPrefix ==
    /\ \A i \in 1..NumSlots : \A j \in 1..NumSlots :
          (i < j /\ regions[j] # None) => regions[i] # None
    /\ \A i \in 1..NumSlots :
          regions[i] = IF i <= Len(attempted) THEN <<attempted[i]>> ELSE <<>>

\* three regions, not all the same, held after a show_regions_and_clear that failed
C10_Witness ==
    /\ Returned("show_regions_and_clear")
    /\ result = "Err"
    /\ Len(attempted) = 3
    /\ attempted[1] # attempted[2]
    /\ regions[3] # None
    /\ regions[4] = None

----------------------------------------------------------------------------
(* C11: clear_regions leaves all 10 slots empty whatever the set held       *)
(* before: get_regions shows no region, a show_regions made before any      *)
(* further store sends nothing and returns Ok, copy_regions over the        *)
(* cleared slots copies nothing, and the next store_region lands in the     *)
(* first slot, the others staying empty.                                    *)
C11_ClearLeavesNothing ==
    /\ [](Returned("clear_regions") =>
             /\ \A i \in 1..NumSlots : regions[i] = None
             /\ copy_regions(OnBuffer(buffer), background, regions) = OnBuffer(buffer))
    /\ [][(pc = "idle" /\ attempted = <<>> /\ pc' = "done") =>
             /\ op'.name = "show_regions" => calls' = <<>> /\ result' = "Ok"
             /\ op'.name \in StoreMethods =>
                   /\ result' = "Ok"
                   /\ regions'[1] = <<StoredArgument'>>
                   /\ \A i \in 2..NumSlots : regions'[i] = None]_vars

\* clear_regions has returned after being called on a full set
C11_Witness ==
    /\ Returned("clear_regions")
    /\ op.held = NumSlots

----------------------------------------------------------------------------
(* The transfers on the wire ww: a transfer starts at a column-address-set  *)
(* command and runs up to the next one.                                     *)

\* the indexes of the writes that start a transfer
Starts(ww) == {i \in 1..Len(ww) : IsCommand(ww[i]) /\ ww[i].bytes = <<CaSet>>}

\* the index of the first and of the last write of the n-th transfer
StartOf(ww, n) == CHOOSE i \in Starts(ww) : Cardinality({j \in Starts(ww) : j < i}) = n - 1
EndOf(ww, n) == IF n < Cardinality(Starts(ww)) THEN StartOf(ww, n + 1) - 1 ELSE Len(ww)

\* the writes ww[s..e] are one complete transfer of the region r of `buffer`:
\* the window of r's bounds, the memory-write command, r's rows
IsTransferOf(ww, s, e, r) ==
    /\ e >= s + 6
    /\ IsCommand(ww[s]) /\ ww[s].bytes = <<CaSet>>
    /\ IsData(ww[s + 1]) /\ ww[s + 1].bytes = to_be_bytes((r.x + dx) % U16)
    /\ IsData(ww[s + 2]) /\ ww[s + 2].bytes = to_be_bytes((r.x + r.width - 1 + dx) % U16)
    /\ IsCommand(ww[s + 3]) /\ ww[s + 3].bytes = <<RaSet>>
    /\ IsData(ww[s + 4]) /\ ww[s + 4].bytes = to_be_bytes((r.y + dy) % U16)
    /\ IsData(ww[s + 5]) /\ ww[s + 5].bytes = to_be_bytes((r.y + r.height - 1 + dy) % U16)
    /\ IsCommand(ww[s + 6]) /\ ww[s + 6].bytes = <<RamWr>>
    /\ \A i \in (s + 7)..e : IsData(ww[i])
    /\ Flatten(ww, s + 7, e) = RectBytes(buffer, width, r.x, r.y, r.width, r.height)

\* the region of the n-th occupied slot, in slot order
OccupiedRegion(slots, n) ==
    LET i == CHOOSE j \in 1..NumSlots :
                 /\ slots[j] # None
                 /\ Cardinality({k \in 1..(j - 1) : slots[k] # None}) = n - 1
    IN  slots[i][1]

----------------------------------------------------------------------------
(* C12: a show_regions that returns Ok has made exactly one transfer per    *)
(* occupied slot, in slot order, each the transfer show_region makes for    *)
(* that slot's x, y, width and height, and none for the empty slots; on an  *)
(* empty set it issues no pin or SPI call and returns Ok.                   *)
C12_OneTransferPerSlot ==
    Returned("show_regions") =>
        LET ww == Wire
        IN  /\ result = "Ok" =>
                  /\ Cardinality(Starts(ww)) = Occupied(regions)
                  /\ \A n \in 1..Occupied(regions) :
                        IsTransferOf(ww, StartOf(ww, n), EndOf(ww, n), OccupiedRegion(regions, n))
            /\ Occupied(regions) = 0 => calls = <<>> /\ result = "Ok"

\* an Ok show_regions of three regions, the first two different, seven slots empty
C12_Witness ==
    /\ Returned("show_regions")
    /\ result = "Ok"
    /\ Occupied(regions) = 3
    /\ regions[1] # regions[2]
    /\ regions[4] = None

----------------------------------------------------------------------------
(* The writes of a transfer *)

\* the rows y.. of the region r of `buffer`, each cut into writes of at most 32 bytes
RECURSIVE RowWrites(_, _)
RowWrites(r, y) ==
    IF y >= r.y + r.height THEN <<>>
    ELSE LET row == RectBytes(buffer, width, r.x, y, r.width, 1)
             pieces == (Len(row) + ChunkBytes - 1) \div ChunkBytes
         IN  [j \in 1..pieces |->
                 [dc |-> High,
                  bytes |-> SubSeq(row, (j - 1) * ChunkBytes + 1,
                                   IF j * ChunkBytes < Len(row) THEN j * ChunkBytes ELSE Len(row))]]
             \o RowWrites(r, y + 1)

\* the writes of one complete transfer of the region r
TransferWrites(r) ==
    << [dc |-> Low,  bytes |-> <<CaSet>>],
       [dc |-> High, bytes |-> to_be_bytes((r.x + dx) % U16)],
       [dc |-> High, bytes |-> to_be_bytes((r.x + r.width - 1 + dx) % U16)],
       [dc |-> Low,  bytes |-> <<RaSet>>],
       [dc |-> High, bytes |-> to_be_bytes((r.y + dy) % U16)],
       [dc |-> High, bytes |-> to_be_bytes((r.y + r.height - 1 + dy) % U16)],
       [dc |-> Low,  bytes |-> <<RamWr>>] >> \o RowWrites(r, r.y)

\* the writes ww[s..e] are the first writes of `expected`
IsPrefixOf(ww, s, e, expected) ==
    /\ e - s + 1 <= Len(expected)
    /\ \A i \in s..e :
          ww[i].dc = expected[i - s + 1].dc /\ ww[i].bytes = expected[i - s + 1].bytes

\* the bytes of the region r in the memory mem are those of `buffer`
HoldsRegion(mem, r) ==
    RectBytes(mem, width, r.x, r.y, r.width, r.height)
        = RectBytes(buffer, width, r.x, r.y, r.width, r.height)

----------------------------------------------------------------------------
(* C13: when a pin or SPI call fails during show_regions, show_regions      *)
(* returns Err and issues nothing after the failing call: on the wire, the  *)
(* transfers of the regions before the one that failed are complete and in  *)
(* slot order, the last transfer started is a prefix of its region's        *)
(* transfer, no transfer of a later slot is started, and a panel that       *)
(* received these writes holds the buffer's bytes in every region whose     *)
(* transfer was completed (nothing is rolled back).                         *)
C13_AbortKeepsSent ==
    (Returned("show_regions") /\ fault > 0) =>
        LET ww == Wire
            n == Cardinality(Starts(ww))
            received == Receive(PowerOn(width, height), ww, 1)
        IN  /\ result = "Err"
            /\ Len(calls) = fault
            /\ n <= Occupied(regions)
            /\ \A j \in 1..(n - 1) :
                  /\ IsTransferOf(ww, StartOf(ww, j), EndOf(ww, j), OccupiedRegion(regions, j))
                  /\ HoldsRegion(received.mem, OccupiedRegion(regions, j))
            /\ n >= 1 => IsPrefixOf(ww, StartOf(ww, n), Len(ww),
                                     TransferWrites(OccupiedRegion(regions, n)))

\* show_regions over three regions has failed in the transfer of the second,
\* after the second's window and before its pixels
C13_Witness ==
    /\ Returned("show_regions")
    /\ result = "Err"
    /\ Occupied(regions) = 3
    /\ regions[1] # regions[2]
    /\ Cardinality(Starts(Wire)) = 2
    /\ Len(Wire) = EndOf(Wire, 1) + 7

----------------------------------------------------------------------------
(* C14: in every fallible driver method (init, hard_reset, set_orientation, *)
(* set_address_window, clear_screen, write_pixel, draw_image, show,         *)
(* show_region, show_regions) the call returns Err exactly when a pin or    *)
(* SPI call failed, and the failing call is the last pin or SPI call (or    *)
(* delay) the method issued.                                                *)
FallibleMethods ==
    {"init", "hard_reset", "set_orientation", "set_address_window", "clear_screen",
     "write_pixel", "draw_image", "show", "show_region", "show_regions"}

C14_FailFast ==
    (pc = "done" /\ op.name \in FallibleMethods) =>
        /\ (result = "Err") <=> (fault > 0)
        /\ fault > 0 => Len(calls) = fault /\ calls[fault].kind \in {"pin", "spi"}

\* init has failed at an SPI write after the reset and more than a hundred calls
C14_Witness ==
    /\ Returned("init")
    /\ result = "Err"
    /\ fault > 100
    /\ calls[fault].kind = "spi"

----------------------------------------------------------------------------
(* C15: the error value store_region returns on a full set differs from     *)
(* the error value a method returns when a pin or SPI call fails, so that   *)
(* a caller holding both can tell them apart.                               *)
C15_DistinctErrors ==
    \A a \in kept : \A b \in kept : a.cause # b.cause => a.value # b.value

\* what the caller gets: the one value () whatever the cause
C15_OneErrorValue == \A a \in kept : a.value = "()"

----------------------------------------------------------------------------
(* Reading the frame buffer *)

\* the byte i (from 1) of a buffer belongs to a pixel of the rectangle
ByteIn(i, x, y, w, h) ==
    LET px == ((i - 1) \div 2) % width
        py == ((i - 1) \div 2) \div width
    IN  px >= x /\ px < x + w /\ py >= y /\ py < y + h

\* the byte i belongs to a pixel of one of the occupied slots' regions
ByteInRegions(i, slots) ==
    \E k \in 1..NumSlots :
        slots[k] # None /\ ByteIn(i, slots[k][1].x, slots[k][1].y, slots[k][1].width,
                                   slots[k][1].height)

\* every occupied slot's region lies inside the frame buffer
AllInside(slots) ==
    \A k \in 1..NumSlots :
        slots[k] # None => Inside(slots[k][1].x, slots[k][1].y, slots[k][1].width,
                                  slots[k][1].height)

\* a frame-buffer call of method `name` is made in this step
FrameStep(name) == pc = "idle" /\ pc' = "done" /\ op'.name = name

----------------------------------------------------------------------------
(* C18: copy_regions(src, regions), the occupied slots' regions lying       *)
(* inside the buffer, returns without a panic and leaves every byte of a    *)
(* pixel inside the union of the occupied regions equal to src's byte at    *)
(* the same position and every other byte as it was; with no occupied slot  *)
(* nothing is copied.                                                       *)
C18_RestoresUnion ==
    [][(FrameStep("copy_regions") /\ AllInside(regions)) =>
          /\ result' = "Ok"
          /\ Len(buffer') = Len(buffer)
          /\ \A i \in 1..Len(buffer) :
                buffer'[i] = IF ByteInRegions(i, regions) THEN background[i] ELSE buffer[i]]_vars

\* copy_regions has restored two different regions that share a pixel,
\* eight slots empty, a pixel outside both still differing from the source
C18_Witness ==
    /\ Returned("copy_regions")
    /\ result = "Ok"
    /\ Occupied(regions) = 2
    /\ regions[1] # regions[2]
    /\ \E i \in 1..Len(buffer) : buffer[i] # background[i]
    /\ \E i \in 1..Len(buffer) : ByteInRegions(i, regions) /\ buffer[i] = background[i]

----------------------------------------------------------------------------
(* C19: after copy_region(src, R, R.origin), pixel writes inside R only,    *)
(* and copy_region(src, R, R.origin) again, R lying inside the buffer,      *)
(* every byte of the buffer inside R equals src's byte at the same          *)
(* position and every byte outside R is what it was before the first copy.  *)
C19_RoundTrip ==
    trip.stage = 2 =>
        /\ result = "Ok"
        /\ \A i \in 1..Len(buffer) :
              buffer[i] = IF ByteIn(i, trip.region[1], trip.region[2], trip.region[3],
                                    trip.region[4])
                          THEN background[i] ELSE trip.before[i]

\* the second copy of a 2 x 2 region has returned, pixels having been drawn
\* inside the region in between
C19_Witness ==
    /\ trip.stage = 2
    /\ trip.drew
    /\ trip.region = <<1, 0, 2, 2>>
    /\ Returned("copy_region")

----------------------------------------------------------------------------
(* C20: copy_region(src, src_x, src_y, w, h, dest_x, dest_y), both          *)
(* rectangles lying inside the buffer, returns without a panic, leaves the  *)
(* destination rectangle of the buffer byte for byte equal to the source    *)
(* rectangle of src (both read with the buffer's width as stride) and       *)
(* every byte outside the destination rectangle as it was.                  *)
C20_CopyRegion ==
    [][(/\ FrameStep("copy_region")
        /\ Inside(op'.args[1], op'.args[2], op'.args[3], op'.args[4])
        /\ Inside(op'.args[5], op'.args[6], op'.args[3], op'.args[4])) =>
          /\ result' = "Ok"
          /\ Len(buffer') = Len(buffer)
          /\ RectBytes(buffer', width, op'.args[5], op'.args[6], op'.args[3], op'.args[4])
                = RectBytes(background, width, op'.args[1], op'.args[2], op'.args[3], op'.args[4])
          /\ \A i \in 1..Len(buffer) :
                ~ByteIn(i, op'.args[5], op'.args[6], op'.args[3], op'.args[4])
                    => buffer'[i] = buffer[i]]_vars

\* a copy of two rows of two pixels to another origin has returned Ok
C20_Witness ==
    /\ Returned("copy_region")
    /\ result = "Ok"
    /\ op.args[3] = 2
    /\ op.args[4] = 2
    /\ op.args[1] # op.args[5]

----------------------------------------------------------------------------
(* Reading the render loop *)

\* the pixel the byte i (from 1) of a buffer belongs to
PixelOf(i) == <<((i - 1) \div 2) % width, ((i - 1) \div 2) \div width>>

\* the regions a and b share no pixel
Disjoint(a, b) ==
    \/ a.x + a.width <= b.x
    \/ b.x + b.width <= a.x
    \/ a.y + a.height <= b.y
    \/ b.y + b.height <= a.y

----------------------------------------------------------------------------
(* C16: in the gauge's render loop, the panel showing the image before the  *)
(* first tick, whenever show_regions has returned Ok in a tick and no       *)
(* drawing so far fell outside the regions registered in its tick, the      *)
(* panel's memory equals the draw buffer at every pixel, whatever the       *)
(* sequence of the arrow's bounding regions.                                *)
C16_NoStalePixels ==
    (loop.at = "restore" /\ result = "Ok" /\ loop.stray = {}) => panel.mem = buffer

\* the transfer of a tick has returned, the arrow's region disjoint from the
\* previous tick's (held in the first slot), the drawing visible in the buffer
C16_Witness ==
    /\ loop.at = "restore"
    /\ result = "Ok"
    /\ loop.stray = {}
    /\ Occupied(regions) = 4
    /\ Disjoint(regions[1][1], regions[2][1])
    /\ panel.mem # background

----------------------------------------------------------------------------
(* C17: in the gauge's render loop, at the start of every tick the draw     *)
(* buffer equals the background buffer at every pixel but those that some   *)
(* tick drew outside all the regions it registered (the untracked           *)
(* overlay): what was drawn inside a registered region has been restored.   *)
C17_Reconciled ==
    loop.at = "draw" =>
        \A i \in 1..Len(buffer) : buffer[i] # background[i] => PixelOf(i) \in loop.stray

\* a tick has drawn in the middle of the panel, registered and shown it, and
\* the next tick starts from the background, the button being tracked
C17_Witness ==
    /\ loop.at = "draw"
    /\ regions[1] # None
    /\ loop.stray = {}
    /\ loop.button = <<Pixel(1, 1, 0)>>
    /\ panel.mem # background
    /\ buffer = background

----------------------------------------------------------------------------
(* C21: a copy_region call whose source or destination rectangle does not   *)
(* lie inside the buffer's width and height ends in a panic and changes no  *)
(* byte outside the destination rectangle.                                  *)
C21_HardFailure ==
    [][(/\ FrameStep("copy_region")
        /\ ~(/\ Inside(op'.args[1], op'.args[2], op'.args[3], op'.args[4])
             /\ Inside(op'.args[5], op'.args[6], op'.args[3], op'.args[4]))) =>
          /\ result' = "Panic"
          /\ \A i \in 1..Len(buffer) :
                ~ByteIn(i, op'.args[5], op'.args[6], op'.args[3], op'.args[4])
                    => buffer'[i] = buffer[i]]_vars

\* what the code does instead: copy_region panics exactly when a row's byte
\* range ends past the end of one of the two buffers, the rows before it
\* having been copied
C21_PanicsPastBufferOnly ==
    [][FrameStep("copy_region") =>
          (result' = "Panic") =
              (/\ op'.args[4] > 0
               /\ \/ ((op'.args[2] + op'.args[4] - 1) * width + op'.args[1] + op'.args[3]) * 2
                        > Len(background)
                  \/ ((op'.args[6] + op'.args[4] - 1) * width + op'.args[5] + op'.args[3]) * 2
                        > Len(buffer))]_vars

----------------------------------------------------------------------------
(* Reading draw_iter *)

\* the pixel list handed to draw_iter in this step
Drawn == op'.args

\* the byte i (from 1) belongs to a pixel of the list that lies inside the buffer
ByteOfDrawn(i, pixels) ==
    \E k \in 1..Len(pixels) :
        /\ pixels[k].x >= 0 /\ pixels[k].x < width
        /\ pixels[k].y >= 0 /\ pixels[k].y < height
        /\ ByteIn(i, pixels[k].x, pixels[k].y, 1, 1)

\* the pixel lies outside the buffer
Outside(p) == p.x < 0 \/ p.x >= width \/ p.y < 0 \/ p.y >= height

----------------------------------------------------------------------------
(* C22: draw_iter returns Ok and changes no byte of the buffer but bytes of *)
(* the pixels of its list that lie inside [0,width) x [0,height): a pixel   *)
(* outside, negative coordinates included, leaves every byte as it was, so  *)
(* a list of such pixels leaves the buffer unchanged.                       *)
C22_Clipping ==
    [][FrameStep("draw_iter") =>
          /\ result' = "Ok"
          /\ Len(buffer') = Len(buffer)
          /\ \A i \in 1..Len(buffer) :
                buffer'[i] # buffer[i] => ByteOfDrawn(i, Drawn)
          /\ (\A k \in 1..Len(Drawn) : Outside(Drawn[k])) => buffer' = buffer]_vars

\* draw_iter has returned from three pixels that all lie outside: one right
\* of the last column, one above the first row, one left of and above it
C22_Witness ==
    /\ Returned("draw_iter")
    /\ result = "Ok"
    /\ Len(op.args) = 3
    /\ \A k \in 1..Len(op.args) : Outside(op.args[k])
    /\ \E k \in 1..Len(op.args) : op.args[k].x = width /\ op.args[k].y = 0
    /\ \E k \in 1..Len(op.args) : op.args[k].x < 0 /\ op.args[k].y < 0

----------------------------------------------------------------------------
(* Reading the painting *)

\* the pixel k of the list lies inside the buffer and owns the byte index b (from 0)
Covers(pixels, k, b) ==
    /\ ~Outside(pixels[k])
    /\ b \in {2 * (pixels[k].y * width + pixels[k].x), 2 * (pixels[k].y * width + pixels[k].x) + 1}

\* the last pixel of the list that owns the byte index b
LastCovering(pixels, b) ==
    CHOOSE k \in 1..Len(pixels) :
        Covers(pixels, k, b) /\ \A j \in (k + 1)..Len(pixels) : ~Covers(pixels, j, b)

\* the buffer after clear(0xF800) and the pixel (1, 1) set to 0x0000
ExamplePainted ==
    FrameBuffer_draw_iter(FrameBuffer_clear(OnBuffer(buffer), 63488), <<Pixel(1, 1, 0)>>).buffer

----------------------------------------------------------------------------
(* C23: draw_iter stores the colour c of a pixel (x, y) inside the buffer   *)
(* as c's high byte at byte index 2*(y*width+x) and c's low byte at the     *)
(* next index, the last pixel of the list winning, and changes no other     *)
(* byte; and show_region(0, 0, 2, 2) of a buffer cleared to 0xF800 with     *)
(* the pixel (1, 1) set to 0x0000 sends the bytes F8 00 F8 00 F8 00 00 00.  *)
C23_PixelEncoding ==
    /\ [][FrameStep("draw_iter") =>
             \A i \in 1..Len(buffer) :
                 buffer'[i] =
                     IF \E k \in 1..Len(Drawn) : Covers(Drawn, k, i - 1)
                     THEN LET p == Drawn[LastCovering(Drawn, i - 1)]
                          IN  IF i - 1 = 2 * (p.y * width + p.x)
                              THEN p.color \div 256 ELSE p.color % 256
                     ELSE buffer[i]]_vars
    /\ [](( /\ Returned("show_region")
            /\ result = "Ok"
            /\ op.args = <<0, 0, 2, 2>>
            /\ buffer = ExamplePainted) =>
              Flatten(Wire, 8, Len(Wire)) = <<248, 0, 248, 0, 248, 0, 0, 0>>)

\* show_region(0, 0, 2, 2) has returned Ok on the buffer cleared to 0xF800
\* whose pixel (1, 1) was then set to 0x0000
C23_Witness ==
    /\ Returned("show_region")
    /\ result = "Ok"
    /\ op.args = <<0, 0, 2, 2>>
    /\ buffer = ExamplePainted
    /\ Len(buffer) = PaintWidth * PaintHeight * 2
    /\ steps = 2

----------------------------------------------------------------------------
(* C24: clear(color) on a buffer of width*height*2 bytes returns without a  *)
(* panic and leaves the color's high byte at every even byte index and its  *)
(* low byte at every odd byte index.                                        *)
C24_Clear ==
    [][FrameStep("clear") =>
          /\ result' = "Ok"
          /\ Len(buffer') = width * height * 2
          /\ \A i \in 1..Len(buffer') :
                buffer'[i] = IF (i - 1) % 2 = 0 THEN op'.args[1] \div 256
                             ELSE op'.args[1] % 256]_vars

\* clear(0x0102) has returned on a buffer that a pixel had been drawn into
C24_Witness ==
    /\ Returned("clear")
    /\ op.args = <<258>>
    /\ steps >= 2
    /\ buffer[1] = 1
    /\ buffer[2] = 2
    /\ buffer[Len(buffer)] = 2

----------------------------------------------------------------------------
(* Reading the bounding region *)

\* the points and the padding of the last call of calculate_bounding_box
BoxPointsGiven == op.args[1]
BoxPadding == op.args[2]

\* the least and the greatest of the set S of integers
Least(S) == CHOOSE m \in S : \A n \in S : m <= n
Greatest(S) == CHOOSE m \in S : \A n \in S : m >= n

XsGiven == {BoxPointsGiven[k].x : k \in 1..Len(BoxPointsGiven)}
YsGiven == {BoxPointsGiven[k].y : k \in 1..Len(BoxPointsGiven)}

\* calculate_bounding_box has returned a region
BoxReturned == Returned("calculate_bounding_box") /\ result = "Ok"

----------------------------------------------------------------------------
(* C25: calculate_bounding_box(points, P) returns width = max_x - min_x +   *)
(* 2P and height = max_y - min_y + 2P, and x = min_x - P and y = min_y - P  *)
(* where these are not negative; for the points (10,10), (50,10), (30,40)   *)
(* and P = 5 it returns {x: 5, y: 5, width: 50, height: 40}.                *)
C25_BoundingBox ==
    BoxReturned =>
        LET region == loop.bounding_region
            P == BoxPadding
        IN  /\ region.width = Greatest(XsGiven) - Least(XsGiven) + 2 * P
            /\ region.height = Greatest(YsGiven) - Least(YsGiven) + 2 * P
            /\ Least(XsGiven) >= P => region.x = Least(XsGiven) - P
            /\ Least(YsGiven) >= P => region.y = Least(YsGiven) - P
            /\ (BoxPointsGiven = <<Point(10, 10), Point(50, 10), Point(30, 40)>> /\ P = 5)
                  => region = Region(5, 5, 50, 40)

\* the region of the points (10,10), (50,10), (30,40) with padding 5 has been returned
C25_Witness ==
    /\ BoxReturned
    /\ BoxPointsGiven = <<Point(10, 10), Point(50, 10), Point(30, 40)>>
    /\ BoxPadding = 5
    /\ loop.bounding_region = Region(5, 5, 50, 40)

----------------------------------------------------------------------------
(* C26: the region returned by calculate_bounding_box lies inside the       *)
(* buffer, x + width <= width of the buffer and y + height <= its height,   *)
(* and a least coordinate smaller than the padding gives x = 0 or y = 0.    *)
C26_Clamped ==
    BoxReturned =>
        LET region == loop.bounding_region
        IN  /\ region.x + region.width <= width
            /\ region.y + region.height <= height
            /\ Least(XsGiven) < BoxPadding => region.x = 0
            /\ Least(YsGiven) < BoxPadding => region.y = 0

\* what the code does instead: the origin is the 16-bit wrap of min - P and
\* the extent is never cut
C26_Wrapped ==
    BoxReturned =>
        LET region == loop.bounding_region
        IN  /\ region.x = (Least(XsGiven) - BoxPadding) % U16
            /\ region.y = (Least(YsGiven) - BoxPadding) % U16
            /\ (Least(XsGiven) >= 0 /\ Least(XsGiven) < BoxPadding)
                  => region.x >= U16 - BoxPadding
            /\ region.width >= 2 * BoxPadding

----------------------------------------------------------------------------
(* C27: every point handed to calculate_bounding_box lies in the returned   *)
(* region, x <= px < x + width and y <= py < y + height, for every          *)
(* non-empty list of points and every padding from 0 on.                    *)
C27_CoversAll ==
    BoxReturned =>
        LET region == loop.bounding_region
        IN  \A k \in 1..Len(BoxPointsGiven) :
                /\ region.x <= BoxPointsGiven[k].x
                /\ BoxPointsGiven[k].x < region.x + region.width
                /\ region.y <= BoxPointsGiven[k].y
                /\ BoxPointsGiven[k].y < region.y + region.height

\* what the code does instead: the points are covered when the padding is
\* at least 1 and no coordinate is smaller than the padding
C27_CoversWhenPadded ==
    (BoxReturned /\ BoxPadding >= 1 /\ Least(XsGiven) >= BoxPadding
                 /\ Least(YsGiven) >= BoxPadding) =>
        LET region == loop.bounding_region
        IN  \A k \in 1..Len(BoxPointsGiven) :
                /\ region.x <= BoxPointsGiven[k].x
                /\ BoxPointsGiven[k].x < region.x + region.width
                /\ region.y <= BoxPointsGiven[k].y
                /\ BoxPointsGiven[k].y < region.y + region.height

----------------------------------------------------------------------------
(* C28: no step of the gauge's render loop (the drawing with store_region,  *)
(* show_regions, copy_regions with clear_regions and store_region) changes  *)
(* a byte of the background buffer: it holds the image drawn at startup at  *)
(* the start of every tick and in between.                                  *)
C28_BackgroundKept ==
    /\ [][background' = background]_vars
    /\ [](background = CleanBuffer(width, height))

\* a tick has been completed and the next one starts with the button still
\* in the draw buffer, where no registered region covered it
C28_Witness ==
    /\ loop.at = "draw"
    /\ regions[1] # None
    /\ loop.stray # {}
    /\ buffer # background
    /\ panel.mem # background
    /\ background = CleanBuffer(width, height)

----------------------------------------------------------------------------
(* C29: a call of show, show_region or show_regions, whether it ends in Ok  *)
(* or in Err, changes no byte of the pixel buffer and no slot of the region *)
(* set; and a show_regions that returns Ok right after a show_regions that  *)
(* returned Ok has sent the same commands and data as the first.            *)
C29_TransfersReadOnly ==
    /\ [][(pc = "idle" /\ pc' = "done" /\ op'.name \in {"show", "show_region", "show_regions"})
             => (buffer' = buffer /\ regions' = regions)]_vars
    /\ []((Returned("show_regions") /\ result = "Ok") =>
             \A k \in kept : k.cause = "Ok" => k.value = Sent)

\* show_regions has returned Ok for the second time in a row, two different
\* regions being stored and sent
C29_Witness ==
    /\ Returned("show_regions")
    /\ result = "Ok"
    /\ kept = {[value |-> Sent, cause |-> "Ok"]}
    /\ Occupied(regions) = 2
    /\ regions[1] # regions[2]
    /\ Len(Sent) > 14

----------------------------------------------------------------------------
(* C30: every store_region call on a set that is not full occupies one more *)
(* slot, also for a region the set holds already or one that overlaps a     *)
(* stored one; a show_regions that returns Ok has made one transfer per     *)
(* occupied slot; and it leaves the panel's memory equal to the buffer at   *)
(* every pixel inside one of the stored regions and as it was everywhere    *)
(* else, whatever the order and the number of times the regions are stored. *)
C30_UnionOnly ==
    /\ [](/\ Occupied(regions) = Len(attempted)
          /\ \A i \in 1..Len(attempted) : regions[i] = Some(attempted[i]))
    /\ []((Returned("show_regions") /\ result = "Ok") =>
             LET ww == Wire
             IN  /\ Cardinality(Starts(ww)) = Occupied(regions)
                 /\ \A n \in 1..Occupied(regions) :
                       IsTransferOf(ww, StartOf(ww, n), EndOf(ww, n),
                                    OccupiedRegion(regions, n)))
    /\ [][(pc = "idle" /\ pc' = "done" /\ op'.name = "show_regions" /\ result' = "Ok") =>
             panel'.mem = [i \in 1..Len(panel.mem) |->
                              IF ByteInRegions(i, regions) THEN buffer[i]
                              ELSE panel.mem[i]]]_vars

\* show_regions has returned Ok with one region stored twice around another
\* that overlaps it, after a drawing; one pixel of the panel is still unwritten
C30_Witness ==
    /\ Returned("show_regions")
    /\ result = "Ok"
    /\ Occupied(regions) = 3
    /\ regions[1] = regions[3]
    /\ regions[1] # regions[2]
    /\ steps > 0
    /\ \E i \in 1..Len(panel.mem) : panel.mem[i] = Unwritten
    /\ \E i \in 1..Len(panel.mem) : panel.mem[i] = buffer[i]

----------------------------------------------------------------------------
(* The render loops when a transfer or a store fails.                      *)

\* the region sets a tick of the loop is entered with: the first n slots taken,
\* for every n the array admits.  The loop itself enters a tick with no slot or
\* one slot taken; the fuller sets are those another caller of store_region
\* would have left, and they make the stores of the tick fail
CrowdedSets ==
    { [i \in 1..NumSlots |-> IF i <= n THEN Some(Region(0, 0, 1, 1)) ELSE None] : n \in 0..NumSlots }

InitGaugeCrowded ==
    /\ width = PanelWidth
    /\ height = PanelHeight
    /\ rgb = FALSE
    /\ dx = 0
    /\ dy = 0
    /\ regions \in CrowdedSets
    /\ cs = High
    /\ dc = High
    /\ rst = High
    /\ background = CleanBuffer(PanelWidth, PanelHeight)
    /\ buffer = background
    /\ panel = PanelHolding(background)
    /\ overflowChecks \in BOOLEAN
    /\ pc = "idle"
    /\ op = NoCall
    /\ result = "Ok"
    /\ calls = <<>>
    /\ fault = 0
    /\ attempted = <<>>
    /\ kept = {}
    /\ \E b \in ButtonInputs : loop = [at |-> "draw", bounding_region |-> <<>>,
                                        button |-> b, stray |-> {}]
    /\ steps = 0
    /\ trip = NoTrip

SpecGaugeCrowded == InitGaugeCrowded /\ [][NextGauge]_vars

\* C31: a transfer that fails is followed by the next tick: after a
\* show_regions that returned an error the loop is at its next drawing and
\* has not panicked
C31_SurvivesFailedFrame ==
    [][(loop.at = "restore" /\ pc = "done" /\ result = "Err")
          => (loop'.at = "draw" /\ result' # "Panic")]_vars

\* what the code does instead: the next step after an Err is the panic of
\* unwrap, and no step follows a panic
C31_FailedFrameHalts ==
    /\ [][(loop.at = "restore" /\ pc = "done" /\ result = "Err") => result' = "Panic"]_vars
    /\ [][result # "Panic"]_vars

\* C34: in the gauge's loop the region set is empty when the first tick starts
\* and holds exactly one region, the previous tick's arrow region in the first
\* slot, when every later tick starts; it holds at most four regions when
\* show_regions runs, and no store_region of the loop is refused
C34_RegionSetBounded ==
    /\ (loop.at = "draw" /\ attempted = <<>>) => regions = NoRegions
    /\ (loop.at = "draw" /\ attempted # <<>>) =>
           regions = [NoRegions EXCEPT ![1] = Some(loop.bounding_region)]
    /\ loop.at \in {"show", "restore"} => Occupied(regions) <= 4
    /\ result # "Panic"
C34_Witness ==
    /\ loop.at = "restore"
    /\ result = "Ok"
    /\ Occupied(regions) = 4
    /\ regions[1] # regions[2]
    /\ regions[2] = Some(loop.bounding_region)

\* C32: a tick in which a store_region finds no empty slot (fewer than three
\* empty slots when the drawing starts) ends in a panic, and nothing is done
\* after a panic: no transfer, no restoration, no reservation
C32_CapacityErrorStops ==
    /\ [][(loop.at = "draw" /\ pc = "idle" /\ Occupied(regions) + 3 > NumSlots)
             => (result' = "Panic" /\ panel' = panel)]_vars
    /\ [][result = "Panic" => FALSE]_vars
C32_Witness ==
    /\ loop.at = "show"
    /\ result = "Panic"
    /\ Occupied(regions) = NumSlots
    /\ regions[NumSlots] = Some(WestText.region)

----------------------------------------------------------------------------
(* The pacing at the end of a tick (gauge main, lines 198 and 272-277;      *)
(* watch main, lines 157 and 190-195).  The timer's counter and the two     *)
(* readings are u32; a u32 is the pair <<high half, low half>> of its       *)
(* 16-bit halves.                                                           *)

\* the number of ticks of the loop that are followed
MaxTicks == 2

\* the u32 of the number n, n below 2^31
u32(n) == <<(n \div U16) % U16, n % U16>>

\* a < b on u32
lt_u32(a, b) == a[1] < b[1] \/ (a[1] = b[1] /\ a[2] < b[2])

\* a - b modulo 2^32
wrapping_sub_u32(a, b) ==
    LET borrow == IF a[2] < b[2] THEN 1 ELSE 0
    IN  <<(a[1] + U16 - b[1] - borrow) % U16, (a[2] + U16 - b[2]) % U16>>

\* a + b modulo 2^32: the counter of the timer going on
wrapping_add_u32(a, b) ==
    LET carry == IF a[2] + b[2] >= U16 THEN 1 ELSE 0
    IN  <<(a[1] + b[1] + carry) % U16, (a[2] + b[2]) % U16>>

\* a - b on u32 as the operator `-` computes it: a panic in a build with overflow
\* checks when b is greater than a, the difference modulo 2^32 otherwise
sub_u32(a, b) ==
    [value |-> wrapping_sub_u32(a, b), panic |-> overflowChecks /\ lt_u32(a, b)]

\* const DESIRED_FRAME_DURATION_US: u32 = 1_000_000 / 16;
DESIRED_FRAME_DURATION_US == u32(1000000 \div 16)

\* if frame_ticks < DESIRED_FRAME_DURATION_US {
\*     delay.delay_us(DESIRED_FRAME_DURATION_US - frame_ticks); }
\* the argument of delay_us, zero where delay_us is not called
frame_delay(frame_ticks) ==
    IF lt_u32(frame_ticks, DESIRED_FRAME_DURATION_US)
    THEN sub_u32(DESIRED_FRAME_DURATION_US, frame_ticks)
    ELSE [value |-> u32(0), panic |-> FALSE]

\* let start_ticks = timer.get_counter_low();
PaceStart ==
    /\ loop.at = "start"
    /\ loop.ticks < MaxTicks
    /\ result # "Panic"
    /\ loop' = [loop EXCEPT !.at = "work", !.start_ticks = loop.counter, !.ticks = @ + 1]
    /\ UNCHANGED <<build, offset, regions, cs, dc, rst, frames, panel, pc, op, result, calls,
                   fault, attempted, kept, steps, trip>>

\* the drawing and the transfer of the tick take d microseconds
PaceWork(d) ==
    /\ loop.at = "work"
    /\ loop' = [loop EXCEPT !.at = "end", !.counter = wrapping_add_u32(@, u32(d)),
                            !.elapsed = d]
    /\ UNCHANGED <<build, offset, regions, cs, dc, rst, frames, panel, pc, op, result, calls,
                   fault, attempted, kept, steps, trip>>

\* the second reading, the subtraction and the delay (lines 272-276)
PaceEnd ==
    /\ loop.at = "end"
    /\ LET end_ticks == loop.counter
           frame_ticks == sub_u32(end_ticks, loop.start_ticks)
           delay == frame_delay(frame_ticks.value)
           panics == frame_ticks.panic \/ delay.panic
       IN  /\ result' = IF panics THEN "Panic" ELSE "Ok"
           /\ pc' = IF panics THEN "done" ELSE "idle"
           /\ loop' = [loop EXCEPT
                  !.at = "start",
                  !.counter = IF panics THEN @ ELSE wrapping_add_u32(@, delay.value),
                  !.blocked = IF panics THEN <<>> ELSE delay.value]
    /\ UNCHANGED <<build, offset, regions, cs, dc, rst, frames, panel, op, calls,
                   fault, attempted, kept, steps, trip>>

\* what the counter holds when a tick starts: just after a wrap, far from one,
\* and within a frame of the next wrap
CounterInputs ==
    { <<0, 0>>, <<0, 40000>>, <<1, 0>>, <<U16 - 1, U16 - 1>>, <<U16 - 1, U16 - 62500>>,
      <<U16 - 1, 0>>, <<U16 - 2, 30000>> }

\* what a tick's drawing and transfer take, in microseconds
WorkInputs == {0, 1, 25536, 62499, 62500, 62501, 65536, 100000}

InitPace ==
    /\ width = PanelWidth
    /\ height = PanelHeight
    /\ rgb = FALSE
    /\ dx = 0
    /\ dy = 0
    /\ regions = NoRegions
    /\ cs = High
    /\ dc = High
    /\ rst = High
    /\ background = CleanBuffer(PanelWidth, PanelHeight)
    /\ buffer = background
    /\ panel = PanelHolding(background)
    /\ overflowChecks \in BOOLEAN
    /\ pc = "idle"
    /\ op = NoCall
    /\ result = "Ok"
    /\ calls = <<>>
    /\ fault = 0
    /\ attempted = <<>>
    /\ kept = {}
    /\ \E c \in CounterInputs : loop = [at |-> "start", ticks |-> 0, start_ticks |-> c,
                                         counter |-> c, elapsed |-> 0, blocked |-> <<>>]
    /\ steps = 0
    /\ trip = NoTrip

NextPace ==
    \/ PaceStart
    \/ \E d \in WorkInputs : PaceWork(d)
    \/ PaceEnd

SpecPace == InitPace /\ [][NextPace]_vars

\* a tick has been paced or has panicked in the pacing
Paced == loop.at = "start" /\ loop.ticks > 0

\* the counter wrapped around between the two readings of the tick
Wrapped == lt_u32(loop.counter, loop.start_ticks)

\* C33: after every tick, with e the ticks elapsed between the two readings,
\* the loop has blocked for budget - e when e < budget and has not blocked
\* when e >= budget, also when the counter wrapped between the readings
C33_Pacing ==
    Paced => /\ result # "Panic"
             /\ loop.elapsed < 62500 => loop.blocked = u32(62500 - loop.elapsed)
             /\ loop.elapsed >= 62500 => loop.blocked = u32(0)

\* the pacing is as C33 says in the builds that wrap, and in the builds with
\* overflow checks as long as the counter has not wrapped; there a tick
\* during which the counter wraps panics in the subtraction
C33_PacingUnlessChecked ==
    /\ [](Paced /\ result # "Panic" =>
            /\ loop.elapsed < 62500 => loop.blocked = u32(62500 - loop.elapsed)
            /\ loop.elapsed >= 62500 => loop.blocked = u32(0))
    /\ [][loop.at = "end" =>
            ((result' = "Panic") <=> (overflowChecks /\ Wrapped))]_vars

----------------------------------------------------------------------------
(* The render loop of the watch example (main, lines 156-196).  A tick      *)
(* restores and clears, draws the arrow and the button, registers the       *)
(* arrow's bounding region and transfers it.  What create_arrow draws is an *)
(* input: a bounding region and pixels inside it (the region is the         *)
(* bounding box of the arrow's corners with a padding of 10); the button is *)
(* a disc of radius 14 around the center the arrow turns around, which      *)
(* every bounding region contains.  The pacing is in PaceStart to PaceEnd.  *)

\* a tick that leaves the draw buffer as the previous tick drew it
restore_no_region(bytes) == OnBuffer(bytes)

\* framebuffer.copy_regions(background_framebuffer.get_buffer(), display.get_regions());
restore_previous_region(bytes) == copy_regions(OnBuffer(bytes), background, regions)

\* where the pixels of the list pixels are
PlacesOf(pixels) == {<<pixels[i].x, pixels[i].y>> : i \in 1..Len(pixels)}

\* copy_regions, clear_regions, create_arrow, create_button and store_region
\* (lines 161-184); a store that fails panics in unwrap
WatchDraw(arrow) ==
    /\ loop.at = "draw"
    /\ pc = "idle"
    /\ LET restored == restore_previous_region(buffer)
           bounding_region == arrow.region
           f1 == FrameBuffer_draw_iter(restored, arrow.pixels)
           f2 == FrameBuffer_draw_iter(f1, loop.button)
           u1 == unwrap(store_region_result_in(clear_regions))
           panics == f2.panic \/ u1 = "Panic"
       IN  /\ buffer' = f2.buffer
           /\ regions' = IF f2.panic THEN clear_regions
                         ELSE store_region_in(clear_regions, bounding_region)
           /\ attempted' = <<bounding_region>>
           /\ result' = IF panics THEN "Panic" ELSE "Ok"
           /\ pc' = IF panics THEN "done" ELSE "idle"
           /\ loop' = [loop EXCEPT
                  !.at = "show",
                  !.bounding_region = bounding_region,
                  !.stray = @ \cup Stray(loop.drawn, <<bounding_region>>),
                  !.drawn = arrow.pixels \o loop.button,
                  !.previous = loop.bounding_region]
    /\ UNCHANGED <<build, offset, cs, dc, rst, background, panel, op, calls, fault, kept,
                   steps, trip>>

\* display.show_regions(framebuffer.get_buffer()).unwrap() (line 185)
WatchShow(faults) ==
    /\ loop.at = "show"
    /\ Call("show_regions", <<>>, show_regions(Start), faults)
    /\ loop' = [loop EXCEPT !.at = "shown"]
    /\ UNCHANGED <<build, offset, regions, frames, attempted, kept, steps, trip>>

\* unwrap has returned and the loop goes round (lines 186-196)
WatchNextTick ==
    /\ loop.at = "shown"
    /\ pc = "done"
    /\ result = "Ok"
    /\ pc' = "idle"
    /\ op' = NoCall
    /\ calls' = <<>>
    /\ fault' = 0
    /\ loop' = [loop EXCEPT !.at = "draw"]
    /\ UNCHANGED <<build, offset, regions, cs, dc, rst, frames, panel, result, attempted, kept,
                   steps, trip>>

\* what the watch's create_arrow draws: a bounding region and pixels inside
\* it.  The regions all hold the place of the button; the second shape lies
\* inside the region of every other, the first and the third each reach a
\* place the other's region leaves out.
WatchShapes ==
    { [region |-> Region(0, 0, 2, 2), pixels |-> <<Pixel(0, 1, 63488), Pixel(1, 0, 63488)>>],
      [region |-> Region(0, 0, 2, 2), pixels |-> <<Pixel(1, 0, 4864)>>],
      [region |-> Region(1, 0, 2, 2), pixels |-> <<Pixel(1, 0, 63488), Pixel(2, 1, 4864)>>],
      [region |-> Region(0, 0, 3, 2), pixels |-> <<Pixel(0, 0, 63488), Pixel(2, 1, 63488)>>] }

\* where the watch's create_button draws, in black
WatchButton == <<Pixel(1, 1, 0)>>

\* the watch's render loop once the image has been drawn into both buffers
\* and shown on the panel (main, lines 113-152)
InitWatch ==
    /\ width = PanelWidth
    /\ height = PanelHeight
    /\ rgb = FALSE
    /\ dx = 0
    /\ dy = 0
    /\ regions = NoRegions
    /\ cs = High
    /\ dc = High
    /\ rst = High
    /\ background = CleanBuffer(PanelWidth, PanelHeight)
    /\ buffer = background
    /\ panel = PanelHolding(background)
    /\ overflowChecks \in BOOLEAN
    /\ pc = "idle"
    /\ op = NoCall
    /\ result = "Ok"
    /\ calls = <<>>
    /\ fault = 0
    /\ attempted = <<>>
    /\ kept = {}
    /\ loop = [at |-> "draw", bounding_region |-> <<>>, button |-> WatchButton, stray |-> {},
               drawn |-> <<>>, previous |-> <<>>]
    /\ steps = 0
    /\ trip = NoTrip

NextWatch ==
    \/ \E arrow \in WatchShapes : WatchDraw(arrow)
    \/ WatchShow(NoFault)
    \/ WatchNextTick

SpecWatch == InitWatch /\ [][NextWatch]_vars

\* C35: in the watch's loop, when the drawing of a tick is done the draw
\* buffer is the background but where this tick drew (the previous region
\* has been restored) and the set holds the new bounding region only; the
\* transfer changes the panel inside that region only; and after the
\* transfer the panel equals the draw buffer at every pixel, provided no tick
\* so far has left a pixel of the tick before it outside its region
C35_WatchFrame ==
    /\ [](loop.at \in {"show", "shown"} /\ result # "Panic" =>
            /\ regions = [NoRegions EXCEPT ![1] = Some(loop.bounding_region)]
            /\ \A i \in 1..Len(buffer) :
                  buffer[i] # background[i] => PixelOf(i) \in PlacesOf(loop.drawn))
    /\ [][loop.at = "show" =>
            \A i \in 1..Len(buffer) :
                panel'.mem[i] # panel.mem[i] =>
                    PixelIn(Point(PixelOf(i)[1], PixelOf(i)[2]),
                            <<loop.bounding_region.x, loop.bounding_region.y,
                              loop.bounding_region.width, loop.bounding_region.height>>)]_vars
    /\ []((loop.at = "shown" /\ result = "Ok" /\ loop.stray = {}) => panel.mem = buffer)

\* the transfer of a tick has returned, the tick before it having drawn with
\* another bounding region and all of its pixels lying in this tick's region
C35_Witness ==
    /\ loop.at = "shown"
    /\ result = "Ok"
    /\ loop.stray = {}
    /\ panel.mem = buffer
    /\ panel.mem # background
    /\ loop.bounding_region = Region(1, 0, 2, 2)
    /\ loop.previous = Region(0, 0, 2, 2)
    /\ \E i \in 1..Len(buffer) : PixelOf(i) = <<0, 0>> /\ panel.mem[i] = background[i]

----------------------------------------------------------------------------
(* The levels of the control lines during the SPI writes                    *)

\* What each of the SPI writes ww[i..] carries, told from the bytes alone: a
\* write is a command when no parameter or pixel is awaited (need = 0), the
\* column and row commands await four bytes and the memory write awaits
\* pixels to the end of the operation (need < 0).
RECURSIVE Roles(_, _, _)
Roles(ww, i, need) ==
    IF i > Len(ww) THEN <<>>
    ELSE IF need = 0
    THEN <<"command">> \o
         Roles(ww, i + 1, IF ww[i].bytes = <<RamWr>> THEN 0 - 1
                          ELSE IF ww[i].bytes \in {<<CaSet>>, <<RaSet>>} THEN 4 ELSE 0)
    ELSE <<"data">> \o
         Roles(ww, i + 1, IF need < 0 THEN need
                          ELSE IF Len(ww[i].bytes) >= need THEN 0 ELSE need - Len(ww[i].bytes))

\* what the writes of the commands list[i..] carry: a command, and data when
\* the command has parameters
RECURSIVE TableRoles(_, _)
TableRoles(list, i) ==
    IF i > Len(list) THEN <<>>
    ELSE (IF list[i][2] = <<>> THEN <<"command">> ELSE <<"command", "data">>)
         \o TableRoles(list, i + 1)

\* what the SPI writes of the last call carry
WireRoles ==
    IF op.name = "init" THEN TableRoles(InitCommands, 1)
    ELSE IF op.name = "set_orientation" THEN <<"command", "data">>
    ELSE Roles(Wire, 1, 0)

\* the transfer protocol with the initialisation and the orientation, any
\* pin or SPI call failing
NextLines ==
    \/ Next
    \/ InitDisplay(AnyFault)
    \/ \E o \in Orientations : SetOrientation(o, AnyFault)

SpecLines == Init /\ [][NextLines]_vars

----------------------------------------------------------------------------
(* Regions of no width or no height                                         *)

\* the last call is show_region of a region of no width or no height, and no
\* pin or SPI call of it failed
ShownEmpty == Returned("show_region") /\ fault = 0 /\ (op.args[3] = 0 \/ op.args[4] = 0)

\* the SPI writes of the last call that follow the window and the
\* memory-write command (two commands with two words each, and RamWr)
PixelWrites == {i \in 1..Len(Wire) : i > 7}

\* C37: show_region of a region of no width or no height returns Ok and
\* streams no pixel byte, for every origin
C37_EmptyRegionHarmless ==
    ShownEmpty => result = "Ok" /\ PixelWrites = {}

\* a region of no width or no height is harmless when the side that is zero
\* does not start at coordinate 0 and the region lies inside the panel (the
\* offset not carrying the window past 65535).  With no height at row 0 the
\* call panics: at once in a build with overflow checks, past the last row
\* of the buffer in one without; with no width at column 0 it panics in a
\* build with overflow checks
C37_HarmlessAwayFromZero ==
    ShownEmpty =>
        LET x == op.args[1]
            y == op.args[2]
            w == op.args[3]
            h == op.args[4]
        IN  /\ ((w = 0 => x > 0) /\ (h = 0 => y > 0) /\ x + w <= width /\ y + h <= height
                    /\ x + dx < U16 /\ y + dy < U16 /\ x + w + dx <= U16 /\ y + h + dy <= U16)
                  => (result = "Ok" /\ PixelWrites = {})
            /\ ((h = 0 /\ y = 0) \/ (overflowChecks /\ w = 0 /\ x = 0))
                  => result = "Panic"

----------------------------------------------------------------------------
\* storing regions and transferring them with show_regions_and_clear, any pin
\* or SPI call failing
NextClear ==
    \/ \E r \in StoreInputs : Len(attempted) < MaxStored /\ StoreRegion(r)
    \/ ShowRegionsAndClear(AnyFault)
    \/ Return

SpecClear == InitRegions /\ [][NextClear]_vars

\* C38: show_regions_and_clear returns Ok with the ten slots empty when no
\* pin or SPI call of the transfers failed, and returns Err with the region
\* set as it was before the call when one failed
C38_ClearedOnSuccessOnly ==
    [][(pc = "idle" /\ pc' = "done" /\ op'.name = "show_regions_and_clear" /\ result' # "Panic") =>
          /\ fault' = 0 => (result' = "Ok" /\ regions' = NoRegions)
          /\ fault' > 0 => (result' = "Err" /\ regions' = regions)]_vars

\* show_regions_and_clear has returned Err, the first region transferred and
\* a write of the second failed, and the set still holds its two regions
C38_Witness ==
    /\ Returned("show_regions_and_clear")
    /\ result = "Err"
    /\ fault > 0
    /\ Occupied(regions) = 2
    /\ Cardinality({i \in 1..Len(Wire) : Wire[i].bytes = <<RamWr>> /\ IsCommand(Wire[i])}) = 2

----------------------------------------------------------------------------
(* Drawing on the driver                                                    *)

\* the pixels passed to the driver's draw_iter: on the screen, its corners,
\* and off it on each side
DisplayPixelInputs ==
    { <<Pixel(1, 1, 258)>>,
      <<Pixel(0, 0, 63488), Pixel(PanelWidth - 1, PanelHeight - 1, 4864)>>,
      <<Pixel(PanelWidth - 1, 0, 258), Pixel(0, 0, 63488)>>,
      <<Pixel(0 - 1, 0, 258), Pixel(1, 0, 4864), Pixel(0, 0 - 1, 258)>>,
      <<Pixel(PanelWidth, 0, 258), Pixel(0, PanelHeight, 258)>>,
      <<Pixel(0, PanelHeight, 63488), Pixel(0, 1, 4864), Pixel(PanelWidth, 1, 258),
        Pixel(1, 0, 1)>>,
      <<>> }

NextDraw ==
    \/ \E pixels \in DisplayPixelInputs : DrawOnDisplay(pixels, AnyFault)
    \/ Return

SpecDraw == Init /\ [][NextDraw]_vars

\* the writes of one pixel: the window of the single column x and the single
\* row y, the memory write, and the color with its high byte first
PixelTraffic(p) ==
    << <<"command", <<CaSet>>>>, <<"data", <<p.x \div 256, p.x % 256>>>>,
       <<"data", <<p.x \div 256, p.x % 256>>>>,
       <<"command", <<RaSet>>>>, <<"data", <<p.y \div 256, p.y % 256>>>>,
       <<"data", <<p.y \div 256, p.y % 256>>>>,
       <<"command", <<RamWr>>>>, <<"data", <<p.color \div 256, p.color % 256>>>> >>

\* the writes of the pixels pixels[i..] that lie on the screen, in their order
RECURSIVE ClippedTraffic(_, _)
ClippedTraffic(pixels, i) ==
    IF i > Len(pixels) THEN <<>>
    ELSE (IF pixels[i].x \in 0..(width - 1) /\ pixels[i].y \in 0..(height - 1)
          THEN PixelTraffic(pixels[i]) ELSE <<>>)
         \o ClippedTraffic(pixels, i + 1)

\* C39: the driver's draw_iter sends, for the pixels on the screen in the
\* order given, a window of one pixel, the memory-write command and the color
\* word with its high byte first, and nothing for a pixel off the screen; the
\* first pin or SPI call that fails ends it with Err, what was sent being the
\* start of that traffic
C39_DrawClipped ==
    Returned("GC9A01A::draw_iter") =>
        LET expected == ClippedTraffic(op.args, 1)
            sent == Sent
        IN  /\ fault = 0 => (result = "Ok" /\ sent = expected)
            /\ fault > 0 => /\ result = "Err"
                            /\ Len(sent) <= Len(expected)
                            /\ Len(calls) = fault
                            /\ sent = SubSeq(expected, 1, Len(sent))

\* draw_iter has returned Ok for a pixel off the screen, one on it and
\* another off it: the traffic is that of the one pixel
C39_Witness ==
    /\ Returned("GC9A01A::draw_iter")
    /\ result = "Ok"
    /\ Len(op.args) = 3
    /\ Len(Sent) = 8
    /\ Sent[8] = <<"data", <<19, 0>>>>

====
